---- MODULE Spec2Model ----
(***************************************************************************)
(* Ledger engine of the rsbtc node: the chain, the UTXO map, the mempool   *)
(* and the proof-of-work target (lib/src/types/blockchain.rs, block.rs),   *)
(* driven by the node's bootstrap sequence (node/src/main.rs) and by the   *)
(* connection handler (node/src/handler.rs).                               *)
(*                                                                         *)
(* Scaling.  The program's integers are scaled down so that TLC can        *)
(* enumerate them: u64 is arithmetic modulo U64Modulus, U256 is arithmetic *)
(* modulo U256Modulus, MIN_TARGET keeps the property of the program's      *)
(* value that 4 * MIN_TARGET still fits a U256, the two interval constants *)
(* are 2 instead of 50 and 210000, and a coin is COIN units instead of     *)
(* 10^8.  Time is counted in ticks of 1/TicksPerSecond seconds.            *)
(*                                                                         *)
(* Hashes.  Hash::hash(x) is SHA-256 over the CBOR encoding of x.  It is   *)
(* modelled as a collision-free function: the hash of x is the value x     *)
(* tagged with the type that was encoded.  NumOf gives the 256-bit number  *)
(* a hash is read as when it is compared against a target.                 *)
(***************************************************************************)
EXTENDS Integers, Sequences, FiniteSets

---------------------------------------------------------------------------
(* Bounds of the model *)

MaxBlocks == 3
MaxChain == 4
MaxMempool == 2
MaxNonce == 3
U64Modulus == 256
U256Modulus == 1024
TicksPerSecond == 2
MaxNowSeconds == 601

(* Program constants (lib/src/lib.rs); COIN, the interval constants and    *)
(* MIN_TARGET scaled as described above.                                   *)

INITIAL_REWARD == 50
COIN == 1
HALVING_INTERVAL == 2
DIFICULTY_UPDATE_INTERVAL == 2
IDEAL_BLOCK_TIME == 10
MIN_TARGET == 63
MAX_MEMPOOL_TRANSACTION_AGE == 600

---------------------------------------------------------------------------
(* Generic helpers *)

Min(a, b) == IF a <= b THEN a ELSE b

Last(s) == s[Len(s)]

RemoveAt(s, i) == SubSeq(s, 1, i - 1) \o SubSeq(s, i + 1, Len(s))

RECURSIVE Orderings(_)
Orderings(s) ==
    IF Len(s) = 0 THEN {<<>>}
    ELSE UNION {{<<s[i]>> \o p : p \in Orderings(RemoveAt(s, i))} : i \in 1..Len(s)}

---------------------------------------------------------------------------
(* Hashes *)

Zero == [kind |-> "zero", pre |-> [z |-> 0]]

HashOf(kind, x) == [kind |-> kind, pre |-> x]

TxHash(tx) == HashOf("tx", tx)

OutputHash(output) == HashOf("output", output)

BlockHash(block) == HashOf("block", block)

HeaderHash(header) == HashOf("header", header)

(* MerkleRoot::calculate: hash each transaction; while more than one hash  *)
(* remains, duplicate the last one if the level is odd and hash the pairs. *)
RECURSIVE MerkleLevel(_)
MerkleLevel(level) ==
    IF Len(level) <= 1 THEN level
    ELSE LET even == IF Len(level) % 2 = 1 THEN Append(level, Last(level)) ELSE level
         IN MerkleLevel([i \in 1..(Len(even) \div 2) |->
                HashOf("pair", [l |-> even[2 * i - 1], r |-> even[2 * i]])])

MerkleRoot(transactions) ==
    IF Len(transactions) = 0 THEN Zero
    ELSE MerkleLevel([i \in 1..Len(transactions) |-> TxHash(transactions[i])])[1]

(* The number a hash is read as (big-endian) by matches_target.  Any fixed *)
(* function of the hashed content will do; in this one the content and the *)
(* nonce together decide the high bits, so that mining has to search.      *)
Mix(header) ==
    17 * header.timestamp + 5 * header.target

RECURSIVE NumOf(_)
NumOf(h) ==
    CASE h.kind = "zero" -> 0
      [] h.kind = "header" ->
            LET mix == Mix(h.pre) + 3 * NumOf(h.pre.prev_block_hash)
                                  + NumOf(h.pre.merkle_root)
            IN  ((U256Modulus \div (MaxNonce + 1)) * ((h.pre.nonce + mix) % (MaxNonce + 1))
                 + (mix % 64)) % U256Modulus
      [] h.kind = "block" ->
            (NumOf(HeaderHash(h.pre.header)) + 7 * Len(h.pre.transactions)) % U256Modulus
      [] h.kind = "tx" ->
            (11 * Len(h.pre.inputs) + 13 * Len(h.pre.outputs)
             + (IF Len(h.pre.outputs) > 0 THEN h.pre.outputs[1].value ELSE 0)) % U256Modulus
      [] h.kind = "pair" -> (NumOf(h.pre.l) + 31 * NumOf(h.pre.r) + 1) % U256Modulus
      [] OTHER -> 1

matches_target(h, target) == NumOf(h) <= target

(* Signature::verify: a signature made with the private key of public key  *)
(* `signer` over the bytes of hash `msg` verifies under that key and that  *)
(* hash only.                                                              *)
Verify(signature, output_hash, public_key) ==
    signature.signer = public_key /\ signature.msg = output_hash

---------------------------------------------------------------------------
(* u64 arithmetic.  With overflow checks (a debug build) an overflowing    *)
(* operation panics, without them (a release build) it wraps.              *)

Panics(oc, exact) == oc /\ (exact < 0 \/ exact >= U64Modulus)

Wrap64(exact) == exact % U64Modulus

RECURSIVE SumExact(_)
SumExact(values) ==
    IF Len(values) = 0 THEN 0 ELSE values[1] + SumExact(Tail(values))

(* Iterator::sum::<u64>(): the wrapped total, and whether an intermediate  *)
(* addition overflowed (all addends are non-negative, so some addition     *)
(* overflows exactly when the exact total does not fit).                   *)
Sum64(values) == [v |-> Wrap64(SumExact(values)), ovf |-> SumExact(values) >= U64Modulus]

OutputValues(outputs) == [i \in 1..Len(outputs) |-> outputs[i].value]

---------------------------------------------------------------------------
(* BlockChain::rebuild_utxos *)

RECURSIVE RemoveInputs(_, _)
RemoveInputs(u, inputs) ==
    IF Len(inputs) = 0 THEN u
    ELSE RemoveInputs([k \in DOMAIN u \ {inputs[1].prev_tx_output_hash} |-> u[k]],
                      Tail(inputs))

Insert(u, k, v) == [x \in DOMAIN u \cup {k} |-> IF x = k THEN v ELSE u[x]]

(* rebuild_utxos with the first output of each transaction kept where      *)
(* lines 46-48 leave the last.                                             *)
InsertOutputsFirst(u, key, outputs) ==
    IF Len(outputs) = 0 THEN u
    ELSE Insert(u, key, [marked |-> FALSE, output |-> outputs[1]])

RECURSIVE InsertOutputs(_, _, _)
InsertOutputs(u, key, outputs) ==
    IF Len(outputs) = 0 THEN u
    ELSE InsertOutputs(Insert(u, key, [marked |-> FALSE, output |-> outputs[1]]),
                       key, Tail(outputs))

RECURSIVE ReplayTxs(_, _)
ReplayTxs(u, txs) ==
    IF Len(txs) = 0 THEN u
    ELSE ReplayTxs(InsertOutputs(RemoveInputs(u, txs[1].inputs), TxHash(txs[1]),
                                 txs[1].outputs),
                   Tail(txs))

RECURSIVE ReplayBlocks(_, _)
ReplayBlocks(u, bs) ==
    IF Len(bs) = 0 THEN u
    ELSE ReplayBlocks(ReplayTxs(u, bs[1].transactions), Tail(bs))

rebuild_utxos(u, bs) == ReplayBlocks(u, bs)

---------------------------------------------------------------------------
(* Block::calculate_miner_fees.  The result is a u64, an error kind or a   *)
(* panic: [res |-> "Ok", v |-> fees] or [res |-> kind].                    *)

NonCoinbase(transactions) == SubSeq(transactions, 2, Len(transactions))

RECURSIVE FlatInputs(_)
FlatInputs(txs) ==
    IF Len(txs) = 0 THEN <<>> ELSE txs[1].inputs \o FlatInputs(Tail(txs))

RECURSIVE FlatOutputs(_)
FlatOutputs(txs) ==
    IF Len(txs) = 0 THEN <<>> ELSE txs[1].outputs \o FlatOutputs(Tail(txs))

(* The scan of lines 127-152: per transaction its inputs, then its         *)
(* outputs; the first missing UTXO, repeated input or repeated output hash *)
(* ends it with InvalidTransaction.                                        *)
RECURSIVE FeeScanInputs(_, _, _)
FeeScanInputs(inputs, seen, u) ==
    IF Len(inputs) = 0 THEN [res |-> "Ok", seen |-> seen]
    ELSE LET k == inputs[1].prev_tx_output_hash IN
         IF k \notin DOMAIN u THEN [res |-> "InvalidTransaction", seen |-> seen]
         ELSE IF k \in seen THEN [res |-> "InvalidTransaction", seen |-> seen]
         ELSE FeeScanInputs(Tail(inputs), seen \cup {k}, u)

RECURSIVE FeeScanOutputs(_, _)
FeeScanOutputs(outputs, seen) ==
    IF Len(outputs) = 0 THEN [res |-> "Ok", seen |-> seen]
    ELSE IF OutputHash(outputs[1]) \in seen THEN [res |-> "InvalidTransaction", seen |-> seen]
    ELSE FeeScanOutputs(Tail(outputs), seen \cup {OutputHash(outputs[1])})

RECURSIVE FeeScan(_, _, _, _)
FeeScan(txs, seenIn, seenOut, u) ==
    IF Len(txs) = 0 THEN "Ok"
    ELSE LET a == FeeScanInputs(txs[1].inputs, seenIn, u) IN
         IF a.res # "Ok" THEN a.res
         ELSE LET b == FeeScanOutputs(txs[1].outputs, seenOut) IN
              IF b.res # "Ok" THEN b.res
              ELSE FeeScan(Tail(txs), a.seen, b.seen, u)

calculate_miner_fees(transactions, u, oc) ==
    LET rest == NonCoinbase(transactions)
        scan == FeeScan(rest, {}, {}, u)
        ins  == FlatInputs(rest)
        inputs_value  == Sum64([i \in 1..Len(ins) |->
                                 u[ins[i].prev_tx_output_hash].output.value])
        outputs_value == Sum64(OutputValues(FlatOutputs(rest)))
    IN  IF scan # "Ok" THEN [res |-> scan]
        ELSE IF oc /\ inputs_value.ovf THEN [res |-> "panic"]
        ELSE IF oc /\ outputs_value.ovf THEN [res |-> "panic"]
        ELSE IF Panics(oc, inputs_value.v - outputs_value.v) THEN [res |-> "panic"]
        ELSE [res |-> "Ok", v |-> Wrap64(inputs_value.v - outputs_value.v)]

---------------------------------------------------------------------------
(* Block::verify_coinbase_transaction *)

RECURSIVE Pow2(_)
Pow2(n) == IF n = 0 THEN 1 ELSE 2 * Pow2(n - 1)

(* INITIAL_REWARD * 10^8 / 2^(height / HALVING_INTERVAL) in u64:           *)
(* [res |-> "Ok", v |-> reward], or a panic when the power overflows with  *)
(* overflow checks, or wraps to 0 and the division is by zero.             *)
BlockRewardAt(height, oc) ==
    LET pow == Pow2(height \div HALVING_INTERVAL) IN
    IF Panics(oc, pow) THEN [res |-> "panic"]
    ELSE IF Wrap64(pow) = 0 THEN [res |-> "panic"]
    ELSE [res |-> "Ok", v |-> (INITIAL_REWARD * COIN) \div Wrap64(pow)]

verify_coinbase_transaction(transactions, predicted_block_height, u, oc) ==
    LET coinbase_transaction == transactions[1]
        miner_fees   == calculate_miner_fees(transactions, u, oc)
        block_reward == BlockRewardAt(predicted_block_height, oc)
        total_coinbase_outputs == Sum64(OutputValues(coinbase_transaction.outputs))
    IN  IF Len(coinbase_transaction.inputs) # 0 THEN "InvalidTransaction"
        ELSE IF Len(coinbase_transaction.outputs) = 0 THEN "InvalidTransaction"
        ELSE IF miner_fees.res # "Ok" THEN miner_fees.res
        ELSE IF block_reward.res # "Ok" THEN block_reward.res
        ELSE IF oc /\ total_coinbase_outputs.ovf THEN "panic"
        ELSE IF Panics(oc, block_reward.v + miner_fees.v) THEN "panic"
        ELSE IF total_coinbase_outputs.v # Wrap64(block_reward.v + miner_fees.v)
             THEN "InvalidTransaction"
        ELSE "Ok"

---------------------------------------------------------------------------
(* Block::verify_transactions *)

(* The inputs of one transaction, lines 51-75: `seen` is the map `inputs`  *)
(* shared by the whole block, `acc` is input_value.                        *)
(* VerifyInputs without the signature check of lines 66-71. *)
RECURSIVE VerifyInputsUnsigned(_, _, _, _, _)
VerifyInputsUnsigned(inputs, seen, acc, u, oc) ==
    IF Len(inputs) = 0 THEN [res |-> "Ok", seen |-> seen, acc |-> acc]
    ELSE LET k == inputs[1].prev_tx_output_hash IN
         IF k \notin DOMAIN u THEN [res |-> "InvalidTransaction"]
         ELSE IF k \in seen THEN [res |-> "InvalidTransaction"]
         ELSE IF Panics(oc, acc + u[k].output.value) THEN [res |-> "panic"]
         ELSE VerifyInputsUnsigned(Tail(inputs), seen \cup {k},
                                   Wrap64(acc + u[k].output.value), u, oc)

RECURSIVE VerifyInputs(_, _, _, _, _)
VerifyInputs(inputs, seen, acc, u, oc) ==
    IF Len(inputs) = 0 THEN [res |-> "Ok", seen |-> seen, acc |-> acc]
    ELSE LET k == inputs[1].prev_tx_output_hash IN
         IF k \notin DOMAIN u THEN [res |-> "InvalidTransaction"]
         ELSE IF k \in seen THEN [res |-> "InvalidTransaction"]
         ELSE IF ~Verify(inputs[1].signature, k, u[k].output.pubkey)
              THEN [res |-> "InvalidSignature"]
         ELSE IF Panics(oc, acc + u[k].output.value) THEN [res |-> "panic"]
         ELSE VerifyInputs(Tail(inputs), seen \cup {k},
                           Wrap64(acc + u[k].output.value), u, oc)

RECURSIVE VerifyEach(_, _, _, _)
VerifyEach(txs, seen, u, oc) ==
    IF Len(txs) = 0 THEN "Ok"
    ELSE LET a == VerifyInputs(txs[1].inputs, seen, 0, u, oc)
             output_value == Sum64(OutputValues(txs[1].outputs))
         IN  IF a.res # "Ok" THEN a.res
             ELSE IF oc /\ output_value.ovf THEN "panic"
             ELSE IF a.acc < output_value.v THEN "InvalidTransaction"
             ELSE VerifyEach(Tail(txs), a.seen, u, oc)

verify_transactions(transactions, predicted_block_height, u, oc) ==
    IF Len(transactions) = 0 THEN "InvalidTransaction"
    ELSE LET c == verify_coinbase_transaction(transactions, predicted_block_height, u, oc)
         IN  IF c # "Ok" THEN c
             ELSE VerifyEach(NonCoinbase(transactions), {}, u, oc)

---------------------------------------------------------------------------
(* BlockChain::try_adjust_target: [res |-> "Ok" or "panic", target |-> t]. *)

(* chrono's Duration::num_seconds: whole seconds, truncated toward zero.   *)
NumSeconds(ticks) ==
    IF ticks >= 0 THEN ticks \div TicksPerSecond ELSE 0 - ((0 - ticks) \div TicksPerSecond)

(* Lines 135-141: the new target kept within [target / 4, target * 4].     *)
(* U256 multiplication panics on overflow.                                 *)
ClampTarget(new_target, target) ==
    IF new_target < target \div 4 THEN [res |-> "Ok", target |-> target \div 4]
    ELSE IF target * 4 >= U256Modulus THEN [res |-> "panic"]
    ELSE IF new_target > target * 4 THEN [res |-> "Ok", target |-> target * 4]
    ELSE [res |-> "Ok", target |-> new_target]

(* try_adjust_target without the cap of line 143. *)
try_adjust_target_uncapped(bs, target) ==
    IF Len(bs) = 0 THEN [res |-> "Ok", target |-> target]
    ELSE IF Len(bs) % DIFICULTY_UPDATE_INTERVAL # 0 THEN [res |-> "Ok", target |-> target]
    ELSE LET start_time == bs[Len(bs) - DIFICULTY_UPDATE_INTERVAL + 1].header.timestamp
             end_time   == Last(bs).header.timestamp
             time_diff_in_seconds == NumSeconds(end_time - start_time)
             target_seconds == IDEAL_BLOCK_TIME * DIFICULTY_UPDATE_INTERVAL
             exact == target * time_diff_in_seconds
             new_target == exact \div target_seconds
             clamped == ClampTarget(new_target, target)
         IN  IF exact < 0 \/ new_target >= U256Modulus THEN [res |-> "panic", target |-> target]
             ELSE IF clamped.res # "Ok" THEN [res |-> "panic", target |-> target]
             ELSE [res |-> "Ok", target |-> clamped.target]

try_adjust_target(bs, target) ==
    IF Len(bs) = 0 THEN [res |-> "Ok", target |-> target]
    ELSE IF Len(bs) % DIFICULTY_UPDATE_INTERVAL # 0 THEN [res |-> "Ok", target |-> target]
    ELSE LET start_time == bs[Len(bs) - DIFICULTY_UPDATE_INTERVAL + 1].header.timestamp
             end_time   == Last(bs).header.timestamp
             time_diff_in_seconds == NumSeconds(end_time - start_time)
             target_seconds == IDEAL_BLOCK_TIME * DIFICULTY_UPDATE_INTERVAL
             (* target * (seconds / target_seconds), fraction dropped; the  *)
             (* decimal string of a negative or too large number does not   *)
             (* parse as a U256 and the expect panics.                      *)
             exact == target * time_diff_in_seconds
             new_target == exact \div target_seconds
             clamped == ClampTarget(new_target, target)
         IN  IF exact < 0 \/ new_target >= U256Modulus THEN [res |-> "panic", target |-> target]
             ELSE IF clamped.res # "Ok" THEN [res |-> "panic", target |-> target]
             ELSE [res |-> "Ok", target |-> Min(clamped.target, MIN_TARGET)]

---------------------------------------------------------------------------
(* BlockChain::add_block: the result and the ledger fields it leaves.      *)

TxHashes(transactions) == {TxHash(transactions[i]) : i \in 1..Len(transactions)}

RECURSIVE Retain(_, _)
Retain(mp, drop) ==
    IF Len(mp) = 0 THEN <<>>
    ELSE IF TxHash(mp[1].tx) \in drop THEN Retain(Tail(mp), drop)
    ELSE <<mp[1]>> \o Retain(Tail(mp), drop)

(* CheckBlock without the timestamp comparison of line 79. *)
CheckBlockAnyTimestamp(bs, u, block, oc) ==
    IF Len(bs) = 0
    THEN IF block.header.prev_block_hash # Zero THEN "InvalidBlock" ELSE "Ok"
    ELSE LET last_block == Last(bs) IN
         IF block.header.prev_block_hash # BlockHash(last_block) THEN "InvalidBlock"
         ELSE IF ~matches_target(HeaderHash(block.header), block.header.target)
              THEN "InvalidBlock"
         ELSE IF MerkleRoot(block.transactions) # block.header.merkle_root
              THEN "InvalidMerkleRoot"
         ELSE verify_transactions(block.transactions, Len(bs), u, oc)

(* CheckBlock without the proof-of-work comparison of line 67. *)
CheckBlockAnyWork(bs, u, block, oc) ==
    IF Len(bs) = 0
    THEN IF block.header.prev_block_hash # Zero THEN "InvalidBlock" ELSE "Ok"
    ELSE LET last_block == Last(bs) IN
         IF block.header.prev_block_hash # BlockHash(last_block) THEN "InvalidBlock"
         ELSE IF MerkleRoot(block.transactions) # block.header.merkle_root
              THEN "InvalidMerkleRoot"
         ELSE IF block.header.timestamp <= last_block.header.timestamp THEN "InvalidBlock"
         ELSE verify_transactions(block.transactions, Len(bs), u, oc)
(* CheckBlock with the timestamp comparison of line 79 made before the     *)
(* Merkle root comparison of line 74.                                      *)
CheckBlockTimestampFirst(bs, u, block, oc) ==
    IF Len(bs) = 0
    THEN IF block.header.prev_block_hash # Zero THEN "InvalidBlock" ELSE "Ok"
    ELSE LET last_block == Last(bs) IN
         IF block.header.prev_block_hash # BlockHash(last_block) THEN "InvalidBlock"
         ELSE IF ~matches_target(HeaderHash(block.header), block.header.target)
              THEN "InvalidBlock"
         ELSE IF block.header.timestamp <= last_block.header.timestamp THEN "InvalidBlock"
         ELSE IF MerkleRoot(block.transactions) # block.header.merkle_root
              THEN "InvalidMerkleRoot"
         ELSE verify_transactions(block.transactions, Len(bs), u, oc)

(* Lines 54-84: the checks, in the order of the code. *)
CheckBlock(bs, u, block, oc) ==
    IF Len(bs) = 0
    THEN IF block.header.prev_block_hash # Zero THEN "InvalidBlock" ELSE "Ok"
    ELSE LET last_block == Last(bs) IN
         IF block.header.prev_block_hash # BlockHash(last_block) THEN "InvalidBlock"
         ELSE IF ~matches_target(HeaderHash(block.header), block.header.target)
              THEN "InvalidBlock"
         ELSE IF MerkleRoot(block.transactions) # block.header.merkle_root
              THEN "InvalidMerkleRoot"
         ELSE IF block.header.timestamp <= last_block.header.timestamp THEN "InvalidBlock"
         ELSE verify_transactions(block.transactions, Len(bs), u, oc)
(* add_block with the mempool cleared where lines 89-90 retain the entries *)
(* that are not in the block.                                              *)
add_block_clear_mempool(bs, u, target, mp, block, oc) ==
    LET check == CheckBlock(bs, u, block, oc)
        pushed == Append(bs, block)
        adjust == try_adjust_target(pushed, target)
    IN  IF check # "Ok"
        THEN [res |-> check, blocks |-> bs, target |-> target, mempool |-> mp]
        ELSE [res     |-> adjust.res,
              blocks  |-> pushed,
              target  |-> adjust.target,
              mempool |-> <<>>]

(* add_block with the retain of lines 89-90 moved above the checks. *)
add_block_retain_first(bs, u, target, mp, block, oc) ==
    LET check == CheckBlock(bs, u, block, oc)
        retained == Retain(mp, TxHashes(block.transactions))
        pushed == Append(bs, block)
        adjust == try_adjust_target(pushed, target)
    IN  IF check # "Ok"
        THEN [res |-> check, blocks |-> bs, target |-> target, mempool |-> retained]
        ELSE [res     |-> adjust.res,
              blocks  |-> pushed,
              target  |-> adjust.target,
              mempool |-> retained]

add_block(bs, u, target, mp, block, oc) ==
    LET check == CheckBlock(bs, u, block, oc)
        pushed == Append(bs, block)
        adjust == try_adjust_target(pushed, target)
    IN  IF check # "Ok"
        THEN [res |-> check, blocks |-> bs, target |-> target, mempool |-> mp]
        ELSE [res     |-> adjust.res,
              blocks  |-> pushed,
              target  |-> adjust.target,
              mempool |-> Retain(mp, TxHashes(block.transactions))]

---------------------------------------------------------------------------
(* BlockChain::add_to_mempool: the set of outcomes                         *)
(* [res, utxos, mempool]; more than one only when the sort panics.         *)

SetMarked(u, keys, flag) ==
    [k \in DOMAIN u |-> IF k \in keys THEN [u[k] EXCEPT !.marked = flag] ELSE u[k]]

InputKeys(tx) == {tx.inputs[i].prev_tx_output_hash : i \in 1..Len(tx.inputs)}

(* Lines 147-158 *)
RECURSIVE KnownInputs(_, _, _)
KnownInputs(inputs, known, u) ==
    IF Len(inputs) = 0 THEN "Ok"
    ELSE IF inputs[1].prev_tx_output_hash \notin DOMAIN u THEN "InvalidTransaction"
    ELSE IF inputs[1].prev_tx_output_hash \in known THEN "InvalidTransaction"
    ELSE KnownInputs(Tail(inputs), known \cup {inputs[1].prev_tx_output_hash}, u)

(* Lines 162-171: the first mempool entry one of whose outputs hashes to   *)
(* the contested key; 0 when there is none.                                *)
ReferencingTx(mp, key) ==
    LET hits == {i \in 1..Len(mp) :
                    \E j \in 1..Len(mp[i].tx.outputs) :
                        OutputHash(mp[i].tx.outputs[j]) = key}
    IN  IF hits = {} THEN 0 ELSE CHOOSE i \in hits : \A j \in hits : i <= j

(* Lines 160-191 *)
RECURSIVE ResolveConflicts(_, _, _)
ResolveConflicts(inputs, u, mp) ==
    IF Len(inputs) = 0 THEN [utxos |-> u, mempool |-> mp]
    ELSE LET key == inputs[1].prev_tx_output_hash
             idx == ReferencingTx(mp, key)
         IN  IF ~u[key].marked THEN ResolveConflicts(Tail(inputs), u, mp)
             ELSE IF idx # 0
                  THEN ResolveConflicts(Tail(inputs),
                                        SetMarked(u, InputKeys(mp[idx].tx), FALSE),
                                        RemoveAt(mp, idx))
             ELSE ResolveConflicts(Tail(inputs), SetMarked(u, {key}, FALSE), mp)

(* The sort key of lines 223-237: [res |-> "Ok", v |-> fee] or a panic     *)
(* (a missing UTXO under expect, or an overflow with overflow checks).     *)
FeeKey(tx, u, oc) ==
    LET all_input  == Sum64([i \in 1..Len(tx.inputs) |->
                               u[tx.inputs[i].prev_tx_output_hash].output.value])
        all_output == Sum64(OutputValues(tx.outputs))
    IN  IF ~(InputKeys(tx) \subseteq DOMAIN u) THEN [res |-> "panic"]
        ELSE IF oc /\ all_input.ovf THEN [res |-> "panic"]
        ELSE IF oc /\ all_output.ovf THEN [res |-> "panic"]
        ELSE IF Panics(oc, all_input.v - all_output.v) THEN [res |-> "panic"]
        ELSE [res |-> "Ok", v |-> Wrap64(all_input.v - all_output.v)]

(* A stable sort by fee: each entry goes behind the entries whose key is   *)
(* not greater.                                                            *)
RECURSIVE InsertByFee(_, _, _, _)
InsertByFee(sorted, entry, u, oc) ==
    IF Len(sorted) = 0 THEN <<entry>>
    ELSE IF FeeKey(Last(sorted).tx, u, oc).v <= FeeKey(entry.tx, u, oc).v
         THEN Append(sorted, entry)
    ELSE Append(InsertByFee(SubSeq(sorted, 1, Len(sorted) - 1), entry, u, oc), Last(sorted))

RECURSIVE SortByFee(_, _, _)
SortByFee(mp, u, oc) ==
    IF Len(mp) = 0 THEN <<>>
    ELSE InsertByFee(SortByFee(SubSeq(mp, 1, Len(mp) - 1), u, oc), Last(mp), u, oc)

(* Vec::sort_by_key: no key is computed for fewer than two entries; a key  *)
(* that panics leaves the entries in an unspecified order.                 *)
SortOutcomes(mp, u, oc) ==
    IF Len(mp) < 2 THEN {[res |-> "Ok", mempool |-> mp]}
    ELSE IF \E i \in 1..Len(mp) : FeeKey(mp[i].tx, u, oc).res # "Ok"
         THEN {[res |-> "panic", mempool |-> p] : p \in Orderings(mp)}
    ELSE {[res |-> "Ok", mempool |-> SortByFee(mp, u, oc)]}

add_to_mempool(u, mp, tx, time, oc) ==
    LET known == KnownInputs(tx.inputs, {}, u)
        resolved == ResolveConflicts(tx.inputs, u, mp)
        all_inputs  == Sum64([i \in 1..Len(tx.inputs) |->
                                resolved.utxos[tx.inputs[i].prev_tx_output_hash].output.value])
        all_outputs == Sum64(OutputValues(tx.outputs))
        marked == SetMarked(resolved.utxos, InputKeys(tx), TRUE)
        pushed == Append(resolved.mempool, [timestamp |-> time, tx |-> tx])
    IN  IF known # "Ok" THEN {[res |-> known, utxos |-> u, mempool |-> mp]}
        ELSE IF (oc /\ all_inputs.ovf) \/ (oc /\ all_outputs.ovf)
             THEN {[res |-> "panic", utxos |-> resolved.utxos, mempool |-> resolved.mempool]}
        ELSE IF all_inputs.v < all_outputs.v
             THEN {[res |-> "InvalidTransaction",
                    utxos |-> resolved.utxos, mempool |-> resolved.mempool]}
        ELSE {[res |-> s.res, utxos |-> marked, mempool |-> s.mempool] :
                 s \in SortOutcomes(pushed, marked, oc)}

---------------------------------------------------------------------------
(* BlockChain::cleanup_mempool *)

Expired(entry, time) ==
    time - entry.timestamp > MAX_MEMPOOL_TRANSACTION_AGE * TicksPerSecond

RECURSIVE KeepFresh(_, _)
KeepFresh(mp, time) ==
    IF Len(mp) = 0 THEN <<>>
    ELSE IF Expired(mp[1], time) THEN KeepFresh(Tail(mp), time)
    ELSE <<mp[1]>> \o KeepFresh(Tail(mp), time)
(* cleanup_mempool without the loop that unmarks *)
cleanup_mempool_keep_marks(u, mp, time) ==
    [utxos |-> u, mempool |-> KeepFresh(mp, time)]

cleanup_mempool(u, mp, time) ==
    LET utxo_hashes_to_unmark ==
            UNION {InputKeys(mp[i].tx) : i \in {j \in 1..Len(mp) : Expired(mp[j], time)}}
    IN  [utxos |-> SetMarked(u, utxo_hashes_to_unmark, FALSE), mempool |-> KeepFresh(mp, time)]

---------------------------------------------------------------------------
(* Inputs: the transactions and blocks that peers, wallets and miners send *)

Keys == {1, 2}

Out(value, pubkey) == [value |-> value, unique_id |-> 1, pubkey |-> pubkey]

In(key, signer) ==
    [prev_tx_output_hash |-> key, signature |-> [signer |-> signer, msg |-> key]]

Tx(inputs, outputs) == [inputs |-> inputs, outputs |-> outputs]

Coinbase(value) == Tx(<<>>, <<Out(value, 1)>>)

Owner(u, k) == u[k].output.pubkey

Other(key) == CHOOSE k \in Keys : k # key

(* A transaction that spends the given UTXOs, signed by their owners, and  *)
(* pays `value` to key 2.                                                  *)
Spend(u, keys, value) ==
    Tx([i \in 1..Len(keys) |-> In(keys[i], Owner(u, keys[i]))], <<Out(value, 2)>>)

(* The UTXOs the wallet holds: those paid to key 1.                        *)
Spendable(u) == {k \in DOMAIN u : Owner(u, k) = 1}

(* The pairs of distinct spendable keys, each pair in one order.           *)
KeyPairs(u) ==
    {CHOOSE pair \in {<<k1, k2>>, <<k2, k1>>} : TRUE :
        k1 \in Spendable(u), k2 \in Spendable(u)} \ {<<k, k>> : k \in Spendable(u)}

(* Transactions the wallet may submit: for each of its UTXOs one that      *)
(* leaves it all as fee, one that leaves no fee, one that pays more than   *)
(* it holds, one with the same input twice and one naming the UTXO by the  *)
(* hash of its output; and for each pair of UTXOs one that spends both.    *)
WalletTxs(u) ==
    UNION {{Spend(u, <<k>>, 0), Spend(u, <<k>>, u[k].output.value),
            Spend(u, <<k>>, Wrap64(u[k].output.value + 1)),
            Spend(u, <<k, k>>, 0),
            Tx(<<In(OutputHash(u[k].output), Owner(u, k))>>, <<Out(0, 2)>>)} :
           k \in Spendable(u)}
    \cup {Spend(u, pair, 0) : pair \in KeyPairs(u)}

(* The same, and one signed with a key that does not own the UTXO.         *)
BlockTxs(u) ==
    WalletTxs(u)
    \cup {Tx(<<In(k, Other(Owner(u, k)))>>, <<Out(u[k].output.value, 2)>>) :
            k \in Spendable(u)}

Header(timestamp, nonce, prev_block_hash, merkle_root, target) ==
    [timestamp |-> timestamp, nonce |-> nonce, prev_block_hash |-> prev_block_hash,
     merkle_root |-> merkle_root, target |-> target]

(* BlockHeader::mine: the nonce goes up from its start until the hash      *)
(* matches the target; the header comes back unmatched when the steps run  *)
(* out.                                                                    *)
mine(header) ==
    LET good == {n \in header.nonce..MaxNonce :
                    matches_target(HeaderHash([header EXCEPT !.nonce = n]), header.target)}
    IN  IF good = {} THEN [header EXCEPT !.nonce = MaxNonce]
        ELSE [header EXCEPT !.nonce = CHOOSE n \in good : \A m \in good : n <= m]

(* A header whose hash is above its target, when some nonce gives one.     *)
Unmined(header) ==
    LET bad == {n \in 0..MaxNonce :
                    ~matches_target(HeaderHash([header EXCEPT !.nonce = n]), header.target)}
    IN  IF bad = {} THEN header
        ELSE [header EXCEPT !.nonce = CHOOSE n \in bad : \A m \in bad : n <= m]

Block(header, transactions) == [header |-> header, transactions |-> transactions]

Mined(timestamp, prev, target, transactions) ==
    Block(mine(Header(timestamp, 0, prev, MerkleRoot(transactions), target)), transactions)

(* First blocks: a regular one, one that no later block could be (no proof *)
(* of work, a wrong Merkle root, a coinbase that is not the reward, an     *)
(* input that names no UTXO), and one whose previous hash is not zero.     *)
GenesisBlocks ==
    {Mined(0, Zero, MIN_TARGET, <<Coinbase(INITIAL_REWARD * COIN)>>),
     Block(Unmined(Header(0, 0, Zero, Zero, 0)),
           <<Tx(<<>>, <<Out(200, 1)>>),
             Tx(<<In(OutputHash(Out(7, 1)), 1)>>, <<Out(100, 2)>>)>>),
     Mined(0, BlockHash(Block(Header(0, 0, Zero, Zero, 0), <<>>)), MIN_TARGET,
           <<Coinbase(INITIAL_REWARD * COIN)>>)}

Deltas == {0, 1} \cup {seconds * TicksPerSecond : seconds \in {200, 400}}

Reward(height) == (INITIAL_REWARD * COIN) \div Pow2(height \div HALVING_INTERVAL)

(* What a template's coinbase pays for the given transactions.             *)
Pays(u, height, txs) ==
    LET fee(tx) == LET f == FeeKey(tx, u, FALSE) IN IF f.res = "Ok" THEN f.v ELSE 0
    IN  Wrap64(Reward(height) + SumExact([i \in 1..Len(txs) |-> fee(txs[i])]))

(* Lists of transactions for a block on a chain of the given height: the   *)
(* coinbase alone (right, wrong, split in two outputs, with two outputs    *)
(* whose total does not fit a u64), a second transaction without inputs, a *)
(* template of the mempool, and a coinbase with one or two spending        *)
(* transactions.                                                           *)
TxLists(u, mp, height) ==
    LET pool == [i \in 1..Len(mp) |-> mp[i].tx]
    IN  {<<>>, <<Coinbase(Reward(height))>>, <<Coinbase(INITIAL_REWARD * COIN)>>,
         <<Tx(<<>>, <<Out(Reward(height) - 1, 1), Out(1, 2)>>)>>,
         <<Coinbase(Reward(height)), Tx(<<>>, <<Out(0, 2)>>)>>,
         <<Tx(<<>>, <<Out(U64Modulus - 1, 1), Out(Reward(height) + 1, 2)>>)>>,
         <<Coinbase(Pays(u, height, pool))>> \o pool}
        \cup {<<Coinbase(Pays(u, height, <<t>>)), t>> : t \in BlockTxs(u)}
        \cup {<<Coinbase(Reward(height)), Spend(u, <<k>>, 0)>> : k \in Spendable(u)}
        \cup {<<Spend(u, <<k>>, 0)>> : k \in Spendable(u)}
        \cup {<<Coinbase(Pays(u, height, <<Spend(u, <<p[1]>>, 0), Spend(u, <<p[2]>>, 0)>>)),
                Spend(u, <<p[1]>>, 0), Spend(u, <<p[2]>>, 0)>> :
                p \in KeyPairs(u) \cup {<<k, k>> : k \in Spendable(u)}}

(* The blocks offered to a non-empty chain: the coinbase alone under every *)
(* kind of header, and every transaction list under a regular header.      *)
NextBlocks(bs, u, target, mp) ==
    LET last == Last(bs)
        base == <<Coinbase(Reward(Len(bs)))>>
        at(d) == last.header.timestamp + d
        regular == 10 * TicksPerSecond
    IN  {Mined(at(d), BlockHash(last), target, base) : d \in Deltas}
        \cup {Block(Unmined(Header(at(regular), 0, BlockHash(last), MerkleRoot(base), target)),
                    base),
              Block(Header(at(regular), 0, BlockHash(last), MerkleRoot(base),
                           U256Modulus - 1), base),
              Mined(at(regular), Zero, target, base),
              Mined(at(regular), HeaderHash(last.header), target, base),
              Block(mine(Header(at(regular), 0, BlockHash(last), Zero, target)), base)}
        \cup {Mined(at(regular), BlockHash(last), target, txs) :
                txs \in TxLists(u, mp, Len(bs))}

CandidateBlocks(bs, u, target, mp) ==
    IF Len(bs) = 0 THEN GenesisBlocks ELSE NextBlocks(bs, u, target, mp)

---------------------------------------------------------------------------
(* The node *)

VARIABLES
    blocks,           \* BlockChain.blocks
    utxos,            \* BlockChain.utxos: hash -> [marked, output]
    target,           \* BlockChain.target
    mempool,          \* BlockChain.mempool: sequence of [timestamp, tx]
    now,              \* the clock read by Utc::now(), in ticks
    pc,               \* "boot", "boot_adjust", "serve" or "crashed"; "loaded" or
                      \* "rebuilt" for a ledger read from a snapshot
    tasks,            \* the connection tasks spawned by main: task -> its position,
                      \* message, guard on BLOCKCHAIN and socket
    NODES,            \* peer address -> the stream to the peer
    wire,             \* one stream byte by byte: the build's usize, the messages to
                      \* send and sent, the bytes in flight, what recv returned
    template          \* the reply to the miner's last FetchTemplate that it has not
                      \* yet mined, with the key it asked for; empty when none

(* The connections: none while the ledger alone is looked at. *)
net == <<tasks, NODES, wire, template>>

vars == <<blocks, utxos, target, mempool, now, pc, net>>

EmptyMap == [k \in {} |-> 0]

(* BlockChain::new, before main has done anything *)
Init ==
    /\ blocks = <<>>
    /\ utxos = EmptyMap
    /\ target = MIN_TARGET
    /\ mempool = <<>>
    /\ now = 0
    /\ pc = "boot"
    /\ tasks = <<>>
    /\ NODES = <<>>
    /\ wire = <<>>
    /\ template = <<>>

(* A panic in main ends the process; in a connection task it ends the task. *)
AfterPanic(res, phase) == IF res = "panic" /\ phase # "serve" THEN "crashed" ELSE phase

(* Whether integer overflow panics or wraps depends on the build; each     *)
(* operation is taken under both.                                          *)
OverflowChecks == BOOLEAN

(* util::download_blockchain: one block fetched from the peer and appended *)
DownloadBlock ==
    /\ pc = "boot"
    /\ Len(blocks) < MaxBlocks
    /\ \E block \in CandidateBlocks(blocks, utxos, target, mempool), oc \in OverflowChecks :
        LET r == add_block(blocks, utxos, target, mempool, block, oc) IN
        /\ blocks' = r.blocks
        /\ target' = r.target
        /\ mempool' = r.mempool
        /\ pc' = AfterPanic(r.res, "boot")
    /\ UNCHANGED <<utxos, now, net>>

(* main: rebuild_utxos after the download *)
BootRebuild ==
    /\ pc = "boot"
    /\ utxos' = rebuild_utxos(utxos, blocks)
    /\ pc' = "boot_adjust"
    /\ UNCHANGED <<blocks, target, mempool, now, net>>

(* main: try_adjust_target after the rebuild *)
BootAdjust ==
    /\ pc = "boot_adjust"
    /\ LET r == try_adjust_target(blocks, target) IN
        /\ target' = r.target
        /\ pc' = AfterPanic(r.res, "serve")
    /\ UNCHANGED <<blocks, utxos, mempool, now, net>>

(* handle_connection, NewBlock *)
NewBlock ==
    /\ pc = "serve"
    /\ Len(blocks) < MaxBlocks
    /\ \E block \in CandidateBlocks(blocks, utxos, target, mempool), oc \in OverflowChecks :
        LET r == add_block(blocks, utxos, target, mempool, block, oc) IN
        /\ blocks' = r.blocks
        /\ target' = r.target
        /\ mempool' = r.mempool
    /\ UNCHANGED <<utxos, now, pc, net>>

(* handle_connection, SubmitTemplate: add_block, then rebuild_utxos under  *)
(* the same write guard.                                                   *)
SubmitTemplate ==
    /\ pc = "serve"
    /\ Len(blocks) < MaxBlocks
    /\ \E block \in CandidateBlocks(blocks, utxos, target, mempool), oc \in OverflowChecks :
        LET r == add_block(blocks, utxos, target, mempool, block, oc) IN
        /\ blocks' = r.blocks
        /\ target' = r.target
        /\ mempool' = r.mempool
        /\ utxos' = IF r.res = "Ok" THEN rebuild_utxos(utxos, r.blocks) ELSE utxos
    /\ UNCHANGED <<now, pc, net>>

(* handle_connection, NewTransaction *)
NewTransaction ==
    /\ pc = "serve"
    /\ Len(mempool) < MaxMempool
    /\ \E tx \in WalletTxs(utxos), oc \in OverflowChecks :
        \E r \in add_to_mempool(utxos, mempool, tx, now, oc) :
            /\ utxos' = r.utxos
            /\ mempool' = r.mempool
    /\ UNCHANGED <<blocks, target, now, pc, net>>

(* handle_connection, SubmitTransaction *)
SubmitTransaction ==
    /\ pc = "serve"
    /\ Len(mempool) < MaxMempool
    /\ \E tx \in WalletTxs(utxos), oc \in OverflowChecks :
        \E r \in add_to_mempool(utxos, mempool, tx, now, oc) :
            /\ utxos' = r.utxos
            /\ mempool' = r.mempool
    /\ UNCHANGED <<blocks, target, now, pc, net>>

(* util::cleanup: cleanup_mempool under the write guard *)
Cleanup ==
    /\ pc = "serve"
    /\ LET r == cleanup_mempool(utxos, mempool, now) IN
        /\ utxos' = r.utxos
        /\ mempool' = r.mempool
    /\ UNCHANGED <<blocks, target, now, pc, net>>

ClockSteps == {MAX_MEMPOOL_TRANSACTION_AGE * TicksPerSecond + 1}

Tick ==
    /\ pc = "serve"
    /\ \E d \in ClockSteps :
        /\ now + d <= MaxNowSeconds * TicksPerSecond
        /\ now' = now + d
    /\ UNCHANGED <<blocks, utxos, target, mempool, pc, net>>

Next ==
    \/ DownloadBlock
    \/ BootRebuild
    \/ BootAdjust
    \/ NewBlock
    \/ SubmitTemplate
    \/ NewTransaction
    \/ SubmitTransaction
    \/ Cleanup
    \/ Tick

Spec == Init /\ [][Next]_vars

---------------------------------------------------------------------------
(* The chain alone: the same handlers fed blocks of a coinbase only, one   *)
(* for every timestamp step, on a chain long enough for two retargets.     *)

(* Steps of the timestamp long enough for target * seconds / target_seconds *)
(* not to fit a U256 while the target is a quarter of MIN_TARGET.          *)
LongDeltas == {seconds * TicksPerSecond : seconds \in {1400, 1500}}

CoinbaseBlocks(bs, t) ==
    IF Len(bs) = 0 THEN GenesisBlocks
    ELSE {Mined(Last(bs).header.timestamp + d, BlockHash(Last(bs)), t,
                <<Coinbase(Reward(Len(bs)))>>) :
            d \in Deltas \cup {IDEAL_BLOCK_TIME * TicksPerSecond} \cup LongDeltas}

(* util::download_blockchain *)
DownloadCoinbaseBlock ==
    /\ pc = "boot"
    /\ Len(blocks) < MaxChain
    /\ \E block \in CoinbaseBlocks(blocks, target), oc \in OverflowChecks :
        LET r == add_block(blocks, utxos, target, mempool, block, oc) IN
        /\ blocks' = r.blocks
        /\ target' = r.target
        /\ mempool' = r.mempool
        /\ pc' = AfterPanic(r.res, "boot")
    /\ UNCHANGED <<utxos, now, net>>

(* handle_connection, NewBlock *)
NewCoinbaseBlock ==
    /\ pc = "serve"
    /\ Len(blocks) < MaxChain
    /\ \E block \in CoinbaseBlocks(blocks, target), oc \in OverflowChecks :
        LET r == add_block(blocks, utxos, target, mempool, block, oc) IN
        /\ blocks' = r.blocks
        /\ target' = r.target
        /\ mempool' = r.mempool
    /\ UNCHANGED <<utxos, now, pc, net>>

(* handle_connection, SubmitTemplate *)
SubmitCoinbaseTemplate ==
    /\ pc = "serve"
    /\ Len(blocks) < MaxChain
    /\ \E block \in CoinbaseBlocks(blocks, target), oc \in OverflowChecks :
        LET r == add_block(blocks, utxos, target, mempool, block, oc) IN
        /\ blocks' = r.blocks
        /\ target' = r.target
        /\ mempool' = r.mempool
        /\ utxos' = IF r.res = "Ok" THEN rebuild_utxos(utxos, r.blocks) ELSE utxos
    /\ UNCHANGED <<now, pc, net>>

NextChain ==
    \/ DownloadCoinbaseBlock
    \/ BootRebuild
    \/ BootAdjust
    \/ NewCoinbaseBlock
    \/ SubmitCoinbaseTemplate

SpecChain == Init /\ [][NextChain]_vars

---------------------------------------------------------------------------
(* rebuild_utxos on a ledger read from a snapshot: the file decides the    *)
(* chain and the map, which need not belong together.                      *)

(* The chains one accepted block longer than bs. *)
Extend(bs) ==
    LET u == ReplayBlocks(EmptyMap, bs) IN
    {add_block(bs, u, MIN_TARGET, <<>>, block, FALSE).blocks :
        block \in CandidateBlocks(bs, u, MIN_TARGET, <<>>)}

LoadedChains == {<<>>} \cup Extend(<<>>) \cup UNION {Extend(bs) : bs \in Extend(<<>>)}

(* Maps of up to two entries: one under the hash of the regular first      *)
(* block's coinbase, one under the hash of a transaction of no chain.      *)
LoadedMaps ==
    LET inChain == TxHash(Coinbase(INITIAL_REWARD * COIN))
        foreign == TxHash(Tx(<<>>, <<Out(1, 2)>>))
        entries == [marked : BOOLEAN, output : {Out(1, 2)}]
    IN  {EmptyMap}
        \cup {Insert(EmptyMap, k, e) : k \in {inChain, foreign}, e \in entries}
        \cup {Insert(Insert(EmptyMap, inChain, e1), foreign, e2) : e1 \in entries, e2 \in entries}

(* Savable::load: the fields of the file; the mempool is not in the file   *)
(* and starts empty.                                                       *)
InitLoaded ==
    /\ blocks \in LoadedChains
    /\ utxos \in LoadedMaps
    /\ target = MIN_TARGET
    /\ mempool = <<>>
    /\ now = 0
    /\ pc = "loaded"
    /\ tasks = <<>>
    /\ NODES = <<>>
    /\ wire = <<>>
    /\ template = <<>>

RebuildUtxos ==
    /\ pc = "loaded"
    /\ utxos' = rebuild_utxos(utxos, blocks)
    /\ pc' = "rebuilt"
    /\ UNCHANGED <<blocks, target, mempool, now, net>>

NextRebuild == RebuildUtxos

SpecRebuild == InitLoaded /\ [][NextRebuild]_vars

---------------------------------------------------------------------------
(* The connections of a serving node: the tasks that main spawns, one per  *)
(* accepted socket, the lock on BLOCKCHAIN and the streams of NODES.  A    *)
(* task is at one of the positions                                         *)
(*   "recv"          in recv_async on its socket                           *)
(*   "lock"          in BLOCKCHAIN.read() or BLOCKCHAIN.write()            *)
(*   "mutate"        before add_block or add_to_mempool, guard held        *)
(*   "rebuild"       before rebuild_utxos in SubmitTemplate                *)
(*   "send_len"      in the write_all of the length prefix to a peer       *)
(*   "send_payload"  in the write_all of the payload to a peer             *)
(*   "reply"         in send_async of a reply on its socket                *)
(*   "release"       at the end of the match arm, where the guards drop    *)
(* or has ended: "returned", "panicked", "dropped".                        *)

MaxTasks == 2
MaxPeers == 2
MaxNetChain == 1
MaxNetMempool == 1
MaxFrames == 2

Tasks == 1..MaxTasks

Peers == 1..MaxPeers

(* Message::send_async: the chunks written, each by one awaited write_all. *)
send_async(message) ==
    <<[part |-> "len", of |-> message], [part |-> "payload", of |-> message]>>
(* SuspensionPoints with an await between add_block and rebuild_utxos. *)
SuspensionPointsAndRebuild ==
    {"recv", "lock", "send_len", "send_payload", "reply", "rebuild"}

(* The positions at which a task is inside an await. *)
SuspensionPoints == {"recv", "lock", "send_len", "send_payload", "reply"}

Ended == {"returned", "panicked", "dropped"}

NoMessage == [kind |-> "none", body |-> 0]

(* A task that main has just spawned on an accepted socket. *)
Spawned ==
    [at |-> "recv", message |-> NoMessage, guard |-> "none", nodes |-> <<>>, sent |-> <<>>]

(* The messages whose handler takes BLOCKCHAIN.read() / BLOCKCHAIN.write(). *)
ReadKinds == {"FetchBlock", "AskDifference", "FetchUTXOs", "FetchTemplate"}

WriteKinds ==
    {"NewBlock", "NewTransaction", "ValidateTemplate", "SubmitTemplate", "SubmitTransaction"}

(* The messages answered on the socket. *)
ReplyKinds ==
    {"FetchBlock", "DiscoverNodes", "AskDifference", "FetchUTXOs", "ValidateTemplate",
     "FetchTemplate"}

(* Blocks sent to the node: the regular next one, and one whose previous   *)
(* hash is not the one the chain asks for.                                 *)
NetBlocks ==
    IF Len(blocks) = 0
    THEN {Mined(0, prev, MIN_TARGET, <<Coinbase(INITIAL_REWARD * COIN)>>) :
            prev \in {Zero, BlockHash(Block(Header(0, 0, Zero, Zero, 0), <<>>))}}
    ELSE LET at == Last(blocks).header.timestamp + IDEAL_BLOCK_TIME * TicksPerSecond
             base == <<Coinbase(Reward(Len(blocks)))>>
         IN  {Mined(at, BlockHash(Last(blocks)), target, base), Mined(at, Zero, target, base)}

(* Transactions sent to the node: for each UTXO of the wallet one that     *)
(* spends it and one that pays more than it holds.                         *)
NetTxs ==
    UNION {{Spend(utxos, <<k>>, 0), Spend(utxos, <<k>>, Wrap64(utxos[k].output.value + 1))} :
           k \in Spendable(utxos)}

(* The messages a connection may carry.  "Template" stands for the five    *)
(* messages meant for miners and wallets.                                  *)
Requests ==
    {[kind |-> k, body |-> 0] :
        k \in {"DiscoverNodes", "AskDifference", "FetchUTXOs", "FetchTemplate",
               "ValidateTemplate", "Template"}}
    \cup {[kind |-> "FetchBlock", body |-> height] : height \in {0, MaxNetChain}}
    \cup {[kind |-> k, body |-> block] : k \in {"NewBlock", "SubmitTemplate"}, block \in NetBlocks}
    \cup {[kind |-> k, body |-> tx] : k \in {"NewTransaction", "SubmitTransaction"}, tx \in NetTxs}

(* tokio's RwLock: a read guard is given while no write guard is held, a   *)
(* write guard while no guard is held.                                     *)
Holders(kind) == {t \in DOMAIN tasks : tasks[t].guard = kind}

(* The streams are short enough for one more broadcast. *)
RoomInStreams == \A p \in DOMAIN NODES : Len(NODES[p].bytes) < 2 * MaxFrames

(* handle_connection, lines 11-25 and 37-41: the receive fails (the client *)
(* has closed the socket or sent what does not decode), or a message       *)
(* arrives.  DiscoverNodes reads the keys of NODES at once, which waits    *)
(* for the entries that are taken.                                         *)
Receive(t) ==
    /\ tasks[t].at = "recv"
    /\ \/ tasks' = [tasks EXCEPT ![t].at = "returned"]
       \/ /\ \E message \in Requests :
              /\ message.kind \in {"SubmitTemplate", "SubmitTransaction"} => RoomInStreams
              /\ message.kind \in {"NewBlock", "SubmitTemplate"} => Len(blocks) < MaxNetChain
              /\ message.kind \in {"NewTransaction", "SubmitTransaction"} =>
                    Len(mempool) < MaxNetMempool
              /\ message.kind = "DiscoverNodes" => \A p \in DOMAIN NODES : NODES[p].guard = 0
              /\ tasks' = [tasks EXCEPT
                    ![t].message = message,
                    ![t].at = IF message.kind = "Template" THEN "returned"
                              ELSE IF message.kind = "DiscoverNodes" THEN "reply"
                              ELSE "lock"]
    /\ UNCHANGED <<blocks, utxos, target, mempool, now, pc, wire, template, NODES>>

(* BLOCKCHAIN.read().await of lines 28, 48, 57, 162; FetchBlock returns    *)
(* when the chain has no block of the height (lines 29-31).                *)
AcquireRead(t) ==
    /\ tasks[t].at = "lock"
    /\ tasks[t].message.kind \in ReadKinds
    /\ Holders("write") = {}
    /\ IF tasks[t].message.kind = "FetchBlock" /\ tasks[t].message.body >= Len(blocks)
       THEN tasks' = [tasks EXCEPT ![t].at = "returned"]
       ELSE tasks' = [tasks EXCEPT ![t].at = "reply", ![t].guard = "read"]
    /\ UNCHANGED <<blocks, utxos, target, mempool, now, pc, wire, template, NODES>>

(* BLOCKCHAIN.write().await of lines 70, 79, 89, 105, 133 *)
AcquireWrite(t) ==
    /\ tasks[t].at = "lock"
    /\ tasks[t].message.kind \in WriteKinds
    /\ Holders("write") = {} /\ Holders("read") = {}
    /\ tasks' = [tasks EXCEPT
          ![t].guard = "write",
          ![t].at = IF tasks[t].message.kind = "ValidateTemplate" THEN "reply" ELSE "mutate"]
    /\ UNCHANGED <<blocks, utxos, target, mempool, now, pc, wire, template, NODES>>

(* Lines 115-121 and 142-150: the keys of NODES in the order the map gives *)
(* them, and get_mut on the first, which waits while the entry is taken.   *)
(* The task and the map after it.                                          *)
StartBroadcast(t, order) ==
    IF Len(order) = 0
    THEN [task |-> [tasks[t] EXCEPT !.at = "release"], nodes |-> NODES]
    ELSE [task |-> [tasks[t] EXCEPT !.at = "send_len", !.nodes = order, !.sent = <<>>],
          nodes |-> [NODES EXCEPT ![order[1]].guard = t]]
(* NextNode with a failed send ending the handler, as a `?` would. *)
NextNodeOrReturn(t, ok) ==
    LET node == tasks[t].nodes[1]
        rest == Tail(tasks[t].nodes)
        sent == Append(tasks[t].sent, [node |-> node, ok |-> ok])
        freed == [NODES EXCEPT ![node].guard = 0]
    IN  IF ~ok
        THEN [task |-> [tasks[t] EXCEPT !.at = "returned", !.guard = "none", !.nodes = rest,
                                        !.sent = sent],
              nodes |-> freed]
        ELSE IF Len(rest) = 0
        THEN [task |-> [tasks[t] EXCEPT !.at = "release", !.nodes = rest, !.sent = sent],
              nodes |-> freed]
        ELSE [task |-> [tasks[t] EXCEPT !.at = "send_len", !.nodes = rest, !.sent = sent],
              nodes |-> [freed EXCEPT ![rest[1]].guard = t]]

(* Lines 120-127 and 147-158 after a send to the first of the nodes left:  *)
(* its entry is let go and the next one taken.                             *)
NextNode(t, ok) ==
    LET node == tasks[t].nodes[1]
        rest == Tail(tasks[t].nodes)
        sent == Append(tasks[t].sent, [node |-> node, ok |-> ok])
        freed == [NODES EXCEPT ![node].guard = 0]
    IN  IF Len(rest) = 0
        THEN [task |-> [tasks[t] EXCEPT !.at = "release", !.nodes = rest, !.sent = sent],
              nodes |-> freed]
        ELSE [task |-> [tasks[t] EXCEPT !.at = "send_len", !.nodes = rest, !.sent = sent],
              nodes |-> [freed EXCEPT ![rest[1]].guard = t]]

(* get_mut on the node after the first of the nodes left returns once the  *)
(* entry is free.                                                          *)
NextEntryFree(t) == Len(tasks[t].nodes) > 1 => NODES[tasks[t].nodes[2]].guard = 0

PeerOrders == Orderings([p \in Peers |-> p])
(* AddBlock with a refused NewBlock ending the handler, as a refused       *)
(* SubmitTemplate does.                                                    *)
AddBlockOrReturn(t) ==
    /\ tasks[t].at = "mutate"
    /\ tasks[t].message.kind \in {"NewBlock", "SubmitTemplate"}
    /\ \E oc \in OverflowChecks :
        LET r == add_block(blocks, utxos, target, mempool, tasks[t].message.body, oc) IN
        /\ blocks' = r.blocks
        /\ target' = r.target
        /\ mempool' = r.mempool
        /\ tasks' = [tasks EXCEPT
              ![t].at = IF r.res = "panic" THEN "panicked"
                        ELSE IF r.res # "Ok" THEN "returned"
                        ELSE IF tasks[t].message.kind = "NewBlock" THEN "release"
                        ELSE "rebuild",
              ![t].guard = IF r.res # "Ok" THEN "none" ELSE "write"]
    /\ UNCHANGED <<utxos, now, pc, wire, template, NODES>>
(* AddBlock with a refused SubmitTemplate going on to rebuild_utxos and    *)
(* the broadcast, as if lines 107-110 only logged the error.               *)
AddBlockOrLog(t) ==
    /\ tasks[t].at = "mutate"
    /\ tasks[t].message.kind \in {"NewBlock", "SubmitTemplate"}
    /\ \E oc \in OverflowChecks :
        LET r == add_block(blocks, utxos, target, mempool, tasks[t].message.body, oc) IN
        /\ blocks' = r.blocks
        /\ target' = r.target
        /\ mempool' = r.mempool
        /\ tasks' = [tasks EXCEPT
              ![t].at = IF r.res = "panic" THEN "panicked"
                        ELSE IF tasks[t].message.kind = "NewBlock" THEN "release"
                        ELSE "rebuild",
              ![t].guard = IF r.res = "panic" THEN "none" ELSE "write"]
    /\ UNCHANGED <<utxos, now, pc, wire, template, NODES>>

(* AddBlock with the write guard of SubmitTemplate let go once add_block   *)
(* has returned, before rebuild_utxos.                                     *)
AddBlockThenUnlock(t) ==
    /\ tasks[t].at = "mutate"
    /\ tasks[t].message.kind \in {"NewBlock", "SubmitTemplate"}
    /\ \E oc \in OverflowChecks :
        LET r == add_block(blocks, utxos, target, mempool, tasks[t].message.body, oc) IN
        /\ blocks' = r.blocks
        /\ target' = r.target
        /\ mempool' = r.mempool
        /\ tasks' = [tasks EXCEPT
              ![t].at = IF r.res = "panic" THEN "panicked"
                        ELSE IF tasks[t].message.kind = "NewBlock" THEN "release"
                        ELSE IF r.res = "Ok" THEN "rebuild" ELSE "returned",
              ![t].guard = IF tasks[t].message.kind = "NewBlock" /\ r.res # "panic"
                           THEN "write" ELSE "none"]
    /\ UNCHANGED <<utxos, now, pc, wire, template, NODES>>

(* handle_connection, NewBlock (line 73) and SubmitTemplate (lines         *)
(* 107-110): add_block under the write guard.                              *)
AddBlock(t) ==
    /\ tasks[t].at = "mutate"
    /\ tasks[t].message.kind \in {"NewBlock", "SubmitTemplate"}
    /\ \E oc \in OverflowChecks :
        LET r == add_block(blocks, utxos, target, mempool, tasks[t].message.body, oc) IN
        /\ blocks' = r.blocks
        /\ target' = r.target
        /\ mempool' = r.mempool
        /\ tasks' = [tasks EXCEPT
              ![t].at = IF r.res = "panic" THEN "panicked"
                        ELSE IF tasks[t].message.kind = "NewBlock" THEN "release"
                        ELSE IF r.res = "Ok" THEN "rebuild" ELSE "returned",
              ![t].guard = IF r.res = "panic"
                              \/ (tasks[t].message.kind = "SubmitTemplate" /\ r.res # "Ok")
                           THEN "none" ELSE "write"]
    /\ UNCHANGED <<utxos, now, pc, wire, template, NODES>>

(* handle_connection, SubmitTemplate, lines 112-121: rebuild_utxos, and    *)
(* the start of the broadcast.                                             *)
Rebuild(t) ==
    /\ tasks[t].at = "rebuild"
    /\ utxos' = rebuild_utxos(utxos, blocks)
    /\ \E order \in PeerOrders :
        /\ NODES[order[1]].guard = 0
        /\ tasks' = [tasks EXCEPT ![t] = StartBroadcast(t, order).task]
        /\ NODES' = StartBroadcast(t, order).nodes
    /\ UNCHANGED <<blocks, target, mempool, now, pc, wire, template>>
(* AddToMempool with the write guard dropped and no entry of NODES taken   *)
(* before the first send of the broadcast.                                 *)
AddToMempoolThenUnlock(t) ==
    /\ tasks[t].at = "mutate"
    /\ tasks[t].message.kind \in {"NewTransaction", "SubmitTransaction"}
    /\ \E oc \in OverflowChecks, order \in PeerOrders :
        \E r \in add_to_mempool(utxos, mempool, tasks[t].message.body, now, oc) :
            /\ utxos' = r.utxos
            /\ mempool' = r.mempool
            /\ NODES' = NODES
            /\ IF r.res = "panic"
               THEN tasks' = [tasks EXCEPT ![t].at = "panicked", ![t].guard = "none"]
               ELSE IF r.res # "Ok"
               THEN tasks' = [tasks EXCEPT ![t].at = "returned", ![t].guard = "none"]
               ELSE IF tasks[t].message.kind = "NewTransaction"
               THEN tasks' = [tasks EXCEPT ![t].at = "release"]
               ELSE tasks' = [tasks EXCEPT ![t].at = "send_len", ![t].guard = "none",
                                           ![t].nodes = order, ![t].sent = <<>>]
    /\ UNCHANGED <<blocks, target, now, pc, wire, template>>

(* handle_connection, NewTransaction (line 82) and SubmitTransaction       *)
(* (lines 135-150): add_to_mempool under the write guard, and the start of *)
(* the broadcast.                                                          *)
AddToMempool(t) ==
    /\ tasks[t].at = "mutate"
    /\ tasks[t].message.kind \in {"NewTransaction", "SubmitTransaction"}
    /\ \E oc \in OverflowChecks, order \in PeerOrders :
        \E r \in add_to_mempool(utxos, mempool, tasks[t].message.body, now, oc) :
            /\ utxos' = r.utxos
            /\ mempool' = r.mempool
            /\ IF r.res = "panic"
               THEN /\ tasks' = [tasks EXCEPT ![t].at = "panicked", ![t].guard = "none"]
                    /\ NODES' = NODES
               ELSE IF r.res # "Ok"
               THEN /\ tasks' = [tasks EXCEPT ![t].at = "returned", ![t].guard = "none"]
                    /\ NODES' = NODES
               ELSE IF tasks[t].message.kind = "NewTransaction"
               THEN /\ tasks' = [tasks EXCEPT ![t].at = "release"]
                    /\ NODES' = NODES
               ELSE /\ NODES[order[1]].guard = 0
                    /\ tasks' = [tasks EXCEPT ![t] = StartBroadcast(t, order).task]
                    /\ NODES' = StartBroadcast(t, order).nodes
    /\ UNCHANGED <<blocks, target, now, pc, wire, template>>

(* The message a handler broadcasts for the one it was sent. *)
Gossip(message) ==
    [kind |-> IF message.kind = "SubmitTemplate" THEN "NewBlock" ELSE "NewTransaction",
     body |-> message.body]

(* send_async, line 77, on the stream of the entry: the length prefix is   *)
(* written, or the write fails and the handler goes on to the next node    *)
(* (lines 123-125, 152-154).                                               *)
SendLen(t) ==
    /\ tasks[t].at = "send_len"
    /\ LET node == tasks[t].nodes[1] IN
        IF NODES[node].up
        THEN /\ NODES' = [NODES EXCEPT
                    ![node].bytes = Append(@, send_async(Gossip(tasks[t].message))[1])]
             /\ tasks' = [tasks EXCEPT ![t].at = "send_payload"]
        ELSE /\ NextEntryFree(t)
             /\ NODES' = NextNode(t, FALSE).nodes
             /\ tasks' = [tasks EXCEPT ![t] = NextNode(t, FALSE).task]
    /\ UNCHANGED <<blocks, utxos, target, mempool, now, pc, wire, template>>

(* send_async, line 78: the payload is written, or the write fails; the    *)
(* handler goes on to the next node either way.                            *)
SendPayload(t) ==
    /\ tasks[t].at = "send_payload"
    /\ NextEntryFree(t)
    /\ LET node == tasks[t].nodes[1]
           ok == NODES[node].up
           written == IF ok
                      THEN [NODES EXCEPT
                              ![node].bytes = Append(@, send_async(Gossip(tasks[t].message))[2])]
                      ELSE NODES
           next == NextNode(t, ok)
       IN  /\ NODES' = [p \in DOMAIN NODES |->
                           [next.nodes[p] EXCEPT !.bytes = written[p].bytes]]
           /\ tasks' = [tasks EXCEPT ![t] = next.task]
    /\ UNCHANGED <<blocks, utxos, target, mempool, now, pc, wire, template>>

(* What send_async gives on the socket: the client may have closed it. *)
SendResults == {"Ok", "Err"}

(* The send_async(...).await.unwrap() of lines 34, 44, 51, 66, 99, 209:    *)
(* the reply is written and the handler goes back to line 11, or the write *)
(* fails and unwrap panics; the guard drops either way.                    *)
Reply(t) ==
    /\ tasks[t].at = "reply"
    /\ \E result \in SendResults :
        tasks' = [tasks EXCEPT
            ![t].at = IF result = "Ok" THEN "recv" ELSE "panicked",
            ![t].guard = "none",
            ![t].message = IF result = "Ok" THEN NoMessage ELSE @]
    /\ UNCHANGED <<blocks, utxos, target, mempool, now, pc, wire, template, NODES>>

(* The end of a match arm: the guard drops and the loop goes back to line  *)
(* 11.                                                                     *)
Release(t) ==
    /\ tasks[t].at = "release"
    /\ tasks' = [tasks EXCEPT ![t] = Spawned]
    /\ UNCHANGED <<blocks, utxos, target, mempool, now, pc, wire, template, NODES>>

(* The connection to a peer breaks; every later write on it fails. *)
PeerCloses(p) ==
    /\ NODES[p].up
    /\ NODES' = [NODES EXCEPT ![p].up = FALSE]
    /\ UNCHANGED <<blocks, utxos, target, mempool, now, pc, wire, template, tasks>>

(* A seed node that serves: a new ledger, its peers connected, a task on   *)
(* every accepted socket.                                                  *)
InitNet ==
    /\ blocks = <<>>
    /\ utxos = EmptyMap
    /\ target = MIN_TARGET
    /\ mempool = <<>>
    /\ now = 0
    /\ pc = "serve"
    /\ tasks = [t \in Tasks |-> Spawned]
    /\ NODES = [p \in Peers |-> [up |-> TRUE, guard |-> 0, bytes |-> <<>>]]
    /\ wire = <<>>
    /\ template = <<>>

NextNet ==
    \/ \E t \in Tasks : Receive(t)
    \/ \E t \in Tasks : AcquireRead(t)
    \/ \E t \in Tasks : AcquireWrite(t)
    \/ \E t \in Tasks : AddBlock(t)
    \/ \E t \in Tasks : Rebuild(t)
    \/ \E t \in Tasks : AddToMempool(t)
    \/ \E t \in Tasks : SendLen(t)
    \/ \E t \in Tasks : SendPayload(t)
    \/ \E t \in Tasks : Reply(t)
    \/ \E t \in Tasks : Release(t)
    \/ \E p \in Peers : PeerCloses(p)

SpecNet == InitNet /\ [][NextNet]_vars

---------------------------------------------------------------------------
(* Cancellation: the runtime drops the future of a task at one of its      *)
(* awaits; its locals go, the guards among them.                           *)

Drop(t) ==
    /\ tasks[t].at \in SuspensionPoints
    /\ tasks' = [tasks EXCEPT ![t] = [Spawned EXCEPT !.at = "dropped"]]
    /\ NODES' = [p \in DOMAIN NODES |->
                    IF NODES[p].guard = t THEN [NODES[p] EXCEPT !.guard = 0] ELSE NODES[p]]
    /\ UNCHANGED <<blocks, utxos, target, mempool, now, pc, wire, template>>

NextCancel ==
    \/ NextNet
    \/ \E t \in Tasks : Drop(t)

SpecCancel == InitNet /\ [][NextCancel]_vars

---------------------------------------------------------------------------
(* The snapshot: Savable for BlockChain, ciborium under serde's derive.    *)
(* An encoded value is a CBOR data item, [major, v]: a struct is a map of  *)
(* its fields by name in the order of declaration, a Vec or a tuple an     *)
(* array, a HashMap a map of its entries in the order the map yields them. *)

Item(major, v) == [major |-> major, v |-> v]

(* Serialize and Deserialize of Hash and U256 *)
EncodeHash(hash) == Item("bytes", hash)

DecodeHash(item) == item.v

EncodeU256(number) == Item("uint", number)

DecodeU256(item) == item.v

(* A struct's field *)
HasField(item, name) == \E i \in 1..Len(item.v) : item.v[i][1] = name

Field(item, name) == item.v[CHOOSE i \in 1..Len(item.v) : item.v[i][1] = name][2]

EncodeEach(Encode(_), s) == Item("array", [i \in 1..Len(s) |-> Encode(s[i])])

DecodeEach(Decode(_), item) == [i \in 1..Len(item.v) |-> Decode(item.v[i])]

(* TransactionOutput, transaction.rs:50-55 *)
EncodeOutput(output) ==
    Item("map", << <<"value", Item("uint", output.value)>>,
                   <<"unique_id", Item("bytes", output.unique_id)>>,
                   <<"pubkey", Item("bytes", output.pubkey)>> >>)

DecodeOutput(item) ==
    [value |-> Field(item, "value").v, unique_id |-> Field(item, "unique_id").v,
     pubkey |-> Field(item, "pubkey").v]

(* TransactionInput, transaction.rs:44-48 *)
EncodeInput(input) ==
    Item("map", << <<"prev_tx_output_hash", EncodeHash(input.prev_tx_output_hash)>>,
                   <<"signature", Item("bytes", input.signature)>> >>)

DecodeInput(item) ==
    [prev_tx_output_hash |-> DecodeHash(Field(item, "prev_tx_output_hash")),
     signature |-> Field(item, "signature").v]

(* Transaction, transaction.rs:12-16 *)
EncodeTx(tx) ==
    Item("map", << <<"inputs", EncodeEach(EncodeInput, tx.inputs)>>,
                   <<"outputs", EncodeEach(EncodeOutput, tx.outputs)>> >>)

DecodeTx(item) ==
    [inputs |-> DecodeEach(DecodeInput, Field(item, "inputs")),
     outputs |-> DecodeEach(DecodeOutput, Field(item, "outputs"))]

(* BlockHeader, block.rs:173-180; chrono writes a DateTime as text, exact  *)
(* to the nanosecond.                                                      *)
EncodeHeader(header) ==
    Item("map", << <<"timestamp", Item("text", header.timestamp)>>,
                   <<"nonce", Item("uint", header.nonce)>>,
                   <<"prev_block_hash", EncodeHash(header.prev_block_hash)>>,
                   <<"merkle_root", EncodeHash(header.merkle_root)>>,
                   <<"target", EncodeU256(header.target)>> >>)

DecodeHeader(item) ==
    [timestamp |-> Field(item, "timestamp").v, nonce |-> Field(item, "nonce").v,
     prev_block_hash |-> DecodeHash(Field(item, "prev_block_hash")),
     merkle_root |-> DecodeHash(Field(item, "merkle_root")),
     target |-> DecodeU256(Field(item, "target"))]

(* Block, block.rs:16-20 *)
EncodeBlock(block) ==
    Item("map", << <<"header", EncodeHeader(block.header)>>,
                   <<"transactions", EncodeEach(EncodeTx, block.transactions)>> >>)

DecodeBlock(item) ==
    [header |-> DecodeHeader(Field(item, "header")),
     transactions |-> DecodeEach(DecodeTx, Field(item, "transactions"))]

(* An entry of the mempool: (DateTime<Utc>, Transaction) *)
EncodeEntry(entry) == Item("array", <<Item("text", entry.timestamp), EncodeTx(entry.tx)>>)

DecodeEntry(item) == [timestamp |-> item.v[1].v, tx |-> DecodeTx(item.v[2])]

(* An ordering of a set *)
RECURSIVE SetOrders(_)
SetOrders(S) ==
    IF S = {} THEN {<<>>} ELSE UNION {{<<x>> \o order : order \in SetOrders(S \ {x})} : x \in S}

(* HashMap<Hash, (bool, TransactionOutput)>: one encoding for every order  *)
(* of the entries.                                                         *)
EncodeUtxos(u) ==
    {Item("map", [i \in 1..Len(order) |->
                    <<EncodeHash(order[i]),
                      Item("array", <<Item("bool", u[order[i]].marked),
                                      EncodeOutput(u[order[i]].output)>>)>>]) :
        order \in SetOrders(DOMAIN u)}

DecodeUtxos(item) ==
    [k \in {DecodeHash(item.v[i][1]) : i \in 1..Len(item.v)} |->
        LET value == item.v[CHOOSE i \in 1..Len(item.v) : DecodeHash(item.v[i][1]) = k][2]
        IN  [marked |-> value.v[1].v, output |-> DecodeOutput(value.v[2])]]
(* save without skip_serializing on mempool. *)
save_with_mempool(ledger) ==
    {Item("map", << <<"utxos", encoded>>,
                    <<"target", EncodeU256(ledger.target)>>,
                    <<"blocks", EncodeEach(EncodeBlock, ledger.blocks)>>,
                    <<"mempool", EncodeEach(EncodeEntry, ledger.mempool)>> >>) :
        encoded \in EncodeUtxos(ledger.utxos)}

(* Savable::save for BlockChain, blockchain.rs:304-307, over the fields    *)
(* of lines 20-27: utxos, target, blocks; mempool is skip_serializing.     *)
(* The files it may write.                                                 *)
save(ledger) ==
    {Item("map", << <<"utxos", encoded>>,
                    <<"target", EncodeU256(ledger.target)>>,
                    <<"blocks", EncodeEach(EncodeBlock, ledger.blocks)>> >>) :
        encoded \in EncodeUtxos(ledger.utxos)}

(* Savable::load for BlockChain, blockchain.rs:299-302: mempool is         *)
(* serde(default), read when the file has it and empty otherwise.          *)
load(file) ==
    [utxos   |-> DecodeUtxos(Field(file, "utxos")),
     target  |-> DecodeU256(Field(file, "target")),
     blocks  |-> DecodeEach(DecodeBlock, Field(file, "blocks")),
     mempool |-> IF HasField(file, "mempool")
                 THEN DecodeEach(DecodeEntry, Field(file, "mempool"))
                 ELSE <<>>]

(* The ledger of the node *)
Ledger == [blocks |-> blocks, utxos |-> utxos, target |-> target, mempool |-> mempool]

---------------------------------------------------------------------------
(* The wire: Message::send, send_async, recv and recv_async on one stream, *)
(* byte by byte.                                                           *)
(*                                                                         *)
(* Scaling.  A byte holds a value below ByteModulus instead of 256; a u64  *)
(* is LengthBytes bytes and a usize is as many bytes as the target of the  *)
(* build gives it.  The payload of a message is its variant's tag byte,    *)
(* followed by the byte of its argument when it has one.                   *)

ByteModulus == 4
MaxWire == 3
LengthBytes == 8

(* size_of::<usize>() on a 32-bit and on a 64-bit target *)
UsizeBytes == {4, 8}

(* to_be_bytes of an integer of `width` bytes *)
RECURSIVE to_be_bytes(_, _)
to_be_bytes(n, width) ==
    IF width = 0 THEN <<>>
    ELSE Append(to_be_bytes(n \div ByteModulus, width - 1), n % ByteModulus)

(* u64::from_be_bytes *)
RECURSIVE from_be_bytes(_)
from_be_bytes(bytes) ==
    IF Len(bytes) = 0 THEN 0
    ELSE from_be_bytes(SubSeq(bytes, 1, Len(bytes) - 1)) * ByteModulus + Last(bytes)

(* The messages sent over the wire: one without argument, three with. *)
WireTags == <<"DiscoverNodes", "AskDifference", "FetchBlock", "TemplateValidity">>

WireMessages ==
    {[kind |-> "DiscoverNodes", body |-> 0]}
    \cup {[kind |-> WireTags[i], body |-> b] : i \in 2..Len(WireTags), b \in {0, 1}}

TagOf(kind) == (CHOOSE i \in 1..Len(WireTags) : WireTags[i] = kind) - 1

(* Message::encode, lines 44-48 *)
encode(message) ==
    IF message.kind = "DiscoverNodes" THEN <<TagOf(message.kind)>>
    ELSE <<TagOf(message.kind), message.body>>

WireError == [kind |-> "Err", body |-> 0]

(* Message::decode, lines 50-52 *)
decode(data) ==
    IF Len(data) = 0 \/ data[1] + 1 > Len(WireTags) THEN WireError
    ELSE IF data[1] = 0
         THEN IF Len(data) = 1 THEN [kind |-> WireTags[1], body |-> 0] ELSE WireError
    ELSE IF Len(data) = 2 THEN [kind |-> WireTags[data[1] + 1], body |-> data[2]]
    ELSE WireError

(* Message::send, lines 54-60: bytes.len() is a usize and its to_be_bytes  *)
(* has the width of a usize.                                               *)
send(message, usize_bytes) ==
    to_be_bytes(Len(encode(message)), usize_bytes) \o encode(message)

(* Message::send_async, lines 71-80: bytes.len() as u64 *)
send_async_bytes(message) ==
    to_be_bytes(Len(encode(message)), LengthBytes) \o encode(message)

(* Message::recv and recv_async, lines 62-69 and 82-91, on the bytes that  *)
(* have arrived: "Eof" when read_exact has not enough of them, else the    *)
(* message or the error of decode, and the bytes left.                     *)
recv(stream, usize_bytes) ==
    IF Len(stream) < LengthBytes THEN [res |-> "Eof", message |-> WireError, rest |-> stream]
    ELSE LET len == from_be_bytes(SubSeq(stream, 1, LengthBytes)) % (ByteModulus ^ usize_bytes)
         IN  IF Len(stream) - LengthBytes < len
             THEN [res |-> "Eof", message |-> WireError, rest |-> stream]
             ELSE [res     |-> "Ok",
                   message |-> decode(SubSeq(stream, LengthBytes + 1, LengthBytes + len)),
                   rest    |-> SubSeq(stream, LengthBytes + len + 1, Len(stream))]

RECURSIVE SeqsUpTo(_, _)
SeqsUpTo(S, n) ==
    IF n = 0 THEN {<<>>}
    ELSE SeqsUpTo(S, n - 1) \cup {Append(s, x) : s \in SeqsUpTo(S, n - 1), x \in S}

(* A connected stream, a build, and the messages the sender is going to    *)
(* send.                                                                   *)
InitWire ==
    /\ blocks = <<>>
    /\ utxos = EmptyMap
    /\ target = MIN_TARGET
    /\ mempool = <<>>
    /\ now = 0
    /\ pc = "serve"
    /\ tasks = <<>>
    /\ NODES = <<>>
    /\ wire \in {[usize |-> w, outbox |-> messages, sent |-> <<>>, stream |-> <<>>,
                  received |-> <<>>, closed |-> FALSE] :
                    w \in UsizeBytes, messages \in SeqsUpTo(WireMessages, MaxWire)}
    /\ template = <<>>

(* The sender calls send on its next message. *)
WireSend ==
    /\ Len(wire.outbox) > 0
    /\ wire' = [wire EXCEPT !.outbox = Tail(@),
                            !.sent = Append(@, Head(wire.outbox)),
                            !.stream = @ \o send(Head(wire.outbox), wire.usize)]
    /\ UNCHANGED <<blocks, utxos, target, mempool, now, pc, tasks, NODES, template>>

(* The sender calls send_async on its next message. *)
WireSendAsync ==
    /\ Len(wire.outbox) > 0
    /\ wire' = [wire EXCEPT !.outbox = Tail(@),
                            !.sent = Append(@, Head(wire.outbox)),
                            !.stream = @ \o send_async_bytes(Head(wire.outbox))]
    /\ UNCHANGED <<blocks, utxos, target, mempool, now, pc, tasks, NODES, template>>

(* The sender is done and closes the stream. *)
WireClose ==
    /\ Len(wire.outbox) = 0
    /\ ~wire.closed
    /\ wire' = [wire EXCEPT !.closed = TRUE]
    /\ UNCHANGED <<blocks, utxos, target, mempool, now, pc, tasks, NODES, template>>

(* The receiver calls recv or recv_async: it returns once the bytes it     *)
(* reads have arrived, or with an error when the stream ends before; after *)
(* an error the receiver reads no more.                                    *)
WireRecv ==
    /\ Len(wire.stream) > 0
    /\ WireError \notin {wire.received[i] : i \in 1..Len(wire.received)}
    /\ LET r == recv(wire.stream, wire.usize) IN
        /\ r.res = "Eof" => wire.closed
        /\ wire' = [wire EXCEPT !.received = Append(@, r.message),
                                !.stream = IF r.message = WireError THEN <<>> ELSE r.rest]
    /\ UNCHANGED <<blocks, utxos, target, mempool, now, pc, tasks, NODES, template>>

NextWire ==
    \/ WireSend
    \/ WireSendAsync
    \/ WireClose
    \/ WireRecv

SpecWire == InitWire /\ [][NextWire]_vars

---------------------------------------------------------------------------
(* The miner: FetchTemplate answered with a block to mine, and the mined   *)
(* block handed back with SubmitTemplate.  The chain grows by the node's   *)
(* own templates; the wallet submits transactions in between.              *)

MaxMinerTicks == 2
BLOCK_TRANSACTION_CAP == 1

(* Uuid::new_v4() of line 185 *)
UniqueIds == {1, 2}

(* BlockChain::calculate_fees of handler.rs line 176: the values of the    *)
(* UTXOs the transactions' inputs name less the values of their outputs.   *)
calculate_fees(transactions, u, oc) ==
    LET ins == FlatInputs(transactions)
        inputs_value  == Sum64([i \in 1..Len(ins) |->
                                 u[ins[i].prev_tx_output_hash].output.value])
        outputs_value == Sum64(OutputValues(FlatOutputs(transactions)))
    IN  IF \E i \in 1..Len(ins) : ins[i].prev_tx_output_hash \notin DOMAIN u
        THEN [res |-> "panic"]
        ELSE IF oc /\ (inputs_value.ovf \/ outputs_value.ovf) THEN [res |-> "panic"]
        ELSE IF Panics(oc, inputs_value.v - outputs_value.v) THEN [res |-> "panic"]
        ELSE [res |-> "Ok", v |-> Wrap64(inputs_value.v - outputs_value.v)]

(* The width of u64 at the scale of U64Modulus: 64 for 2^64.               *)
U64Bits == CHOOSE n \in 0..64 : Pow2(n) >= U64Modulus /\ (n = 0 \/ Pow2(n - 1) < U64Modulus)

(* BlockChain::calculate_block_reward: a shift by the width of u64 or more *)
(* panics with overflow checks and is a shift by the amount modulo the     *)
(* width without.                                                          *)
calculate_block_reward(bs, oc) ==
    LET halvings == Len(bs) \div HALVING_INTERVAL IN
    IF halvings >= U64Bits /\ oc THEN [res |-> "panic"]
    ELSE [res |-> "Ok", v |-> (INITIAL_REWARD * COIN) \div Pow2(halvings % U64Bits)]

(* handle_connection, FetchTemplate with every mempool transaction taken,  *)
(* as without the take of line 170.                                        *)
FetchTemplateUncapped(bs, u, t, mp, pubkey, unique_id, time, oc) ==
    LET transactions == [i \in 1..Len(mp) |-> mp[i].tx]
        miner_fees == calculate_fees(transactions, u, oc)
        reward == calculate_block_reward(bs, oc)
        coinbase(value) ==
            Tx(<<>>, <<[value |-> value, unique_id |-> unique_id, pubkey |-> pubkey]>>)
        with(value) == <<coinbase(value)>> \o transactions
        prev_block_hash == IF Len(bs) = 0 THEN Zero ELSE BlockHash(Last(bs))
    IN  IF miner_fees.res # "Ok" \/ reward.res # "Ok" THEN [res |-> "panic"]
        ELSE IF Panics(oc, reward.v + miner_fees.v) THEN [res |-> "panic"]
        ELSE LET all == with(Wrap64(reward.v + miner_fees.v)) IN
             [res |-> "Ok",
              block |-> Block(Header(time, 0, prev_block_hash, MerkleRoot(all), t), all)]

(* handle_connection, FetchTemplate, lines 161-206: the block of the       *)
(* reply, or a panic in the arithmetic.                                    *)
FetchTemplateReply(bs, u, t, mp, pubkey, unique_id, time, oc) ==
    LET transactions == [i \in 1..Min(BLOCK_TRANSACTION_CAP, Len(mp)) |-> mp[i].tx]
        miner_fees == calculate_fees(transactions, u, oc)
        reward == calculate_block_reward(bs, oc)
        coinbase(value) ==
            Tx(<<>>, <<[value |-> value, unique_id |-> unique_id, pubkey |-> pubkey]>>)
        with(value) == <<coinbase(value)>> \o transactions
        prev_block_hash == IF Len(bs) = 0 THEN Zero ELSE BlockHash(Last(bs))
    IN  IF miner_fees.res # "Ok" \/ reward.res # "Ok" THEN [res |-> "panic"]
        ELSE IF Panics(oc, reward.v + miner_fees.v) THEN [res |-> "panic"]
        ELSE LET all == with(Wrap64(reward.v + miner_fees.v)) IN
             [res |-> "Ok",
              block |-> Block(Header(time, 0, prev_block_hash, MerkleRoot(all), t), all)]

(* handle_connection, FetchTemplate: the reply is sent (line 209); a panic *)
(* ends the task and nothing is sent.                                      *)
FetchTemplate ==
    /\ pc = "serve"
    /\ template = <<>>
    /\ \E pubkey \in Keys, unique_id \in UniqueIds, oc \in OverflowChecks :
        LET r == FetchTemplateReply(blocks, utxos, target, mempool, pubkey, unique_id, now, oc)
        IN  template' = IF r.res = "Ok" THEN <<[pubkey |-> pubkey, block |-> r.block]>>
                        ELSE template
    /\ UNCHANGED <<blocks, utxos, target, mempool, now, pc, tasks, NODES, wire>>

(* The miner mines the template and sends SubmitTemplate; the handler,     *)
(* lines 102-113: add_block, then rebuild_utxos.                           *)
SubmitMinedTemplate ==
    /\ pc = "serve"
    /\ template # <<>>
    /\ Len(blocks) < MaxBlocks
    /\ \E oc \in OverflowChecks :
        LET block == Block(mine(template[1].block.header), template[1].block.transactions)
            r == add_block(blocks, utxos, target, mempool, block, oc)
        IN  /\ blocks' = r.blocks
            /\ target' = r.target
            /\ mempool' = r.mempool
            /\ utxos' = IF r.res = "Ok" THEN rebuild_utxos(utxos, r.blocks) ELSE utxos
    /\ template' = <<>>
    /\ UNCHANGED <<now, pc, tasks, NODES, wire>>

(* The time a block takes. *)
MinerTick ==
    /\ pc = "serve"
    /\ now < MaxMinerTicks * IDEAL_BLOCK_TIME * TicksPerSecond
    /\ now' = now + IDEAL_BLOCK_TIME * TicksPerSecond
    /\ UNCHANGED <<blocks, utxos, target, mempool, pc, net>>

(* A seed node that serves, its ledger new. *)
InitMiner ==
    /\ blocks = <<>>
    /\ utxos = EmptyMap
    /\ target = MIN_TARGET
    /\ mempool = <<>>
    /\ now = 0
    /\ pc = "serve"
    /\ tasks = <<>>
    /\ NODES = <<>>
    /\ wire = <<>>
    /\ template = <<>>

NextMiner ==
    \/ FetchTemplate
    \/ SubmitMinedTemplate
    \/ SubmitTransaction
    \/ MinerTick

SpecMiner == InitMiner /\ [][NextMiner]_vars

---------------------------------------------------------------------------
(* The cleanup task beside the wallets *)

(* The ledger of a new node after n rounds of FetchTemplate, mining and    *)
(* SubmitTemplate, one round each IDEAL_BLOCK_TIME.                        *)
RECURSIVE MinedLedger(_)
MinedLedger(n) ==
    IF n = 0 THEN [blocks |-> <<>>, utxos |-> EmptyMap, target |-> MIN_TARGET]
    ELSE LET l == MinedLedger(n - 1)
             time == (n - 1) * IDEAL_BLOCK_TIME * TicksPerSecond
             reply == FetchTemplateReply(l.blocks, l.utxos, l.target, <<>>, 1, n, time, FALSE)
             block == Block(mine(reply.block.header), reply.block.transactions)
             r == add_block(l.blocks, l.utxos, l.target, <<>>, block, FALSE)
         IN  [blocks |-> r.blocks, utxos |-> rebuild_utxos(l.utxos, r.blocks), target |-> r.target]

(* util::cleanup sleeps between two runs: the clock goes on by the age     *)
(* limit to the tick, or by one tick more.                                 *)
AgeTick ==
    /\ pc = "serve"
    /\ \E d \in {MAX_MEMPOOL_TRANSACTION_AGE * TicksPerSecond,
                 MAX_MEMPOOL_TRANSACTION_AGE * TicksPerSecond + 1} :
        /\ now + d <= (MaxNowSeconds + IDEAL_BLOCK_TIME) * TicksPerSecond
        /\ now' = now + d
    /\ UNCHANGED <<blocks, utxos, target, mempool, pc, net>>

(* A node that serves, two blocks mined. *)
InitCleanup ==
    /\ blocks = MinedLedger(2).blocks
    /\ utxos = MinedLedger(2).utxos
    /\ target = MinedLedger(2).target
    /\ mempool = <<>>
    /\ now = IDEAL_BLOCK_TIME * TicksPerSecond
    /\ pc = "serve"
    /\ tasks = <<>>
    /\ NODES = <<>>
    /\ wire = <<>>
    /\ template = <<>>

NextCleanup ==
    \/ SubmitTransaction
    \/ Cleanup
    \/ AgeTick

SpecCleanup == InitCleanup /\ [][NextCleanup]_vars

---------------------------------------------------------------------------
(* The miner beside senders that are not the wallet *)

(* handle_connection, SubmitTransaction, with the transactions of any      *)
(* sender: those of the wallet, and for each of its UTXOs one that spends  *)
(* it under a signature of another key.                                    *)
SubmitAnyTransaction ==
    /\ pc = "serve"
    /\ Len(mempool) < MaxMempool
    /\ \E tx \in BlockTxs(utxos), oc \in OverflowChecks :
        \E r \in add_to_mempool(utxos, mempool, tx, now, oc) :
            /\ utxos' = r.utxos
            /\ mempool' = r.mempool
    /\ UNCHANGED <<blocks, target, now, pc, net>>

NextSubmit ==
    \/ FetchTemplate
    \/ SubmitMinedTemplate
    \/ SubmitAnyTransaction
    \/ MinerTick

SpecSubmit == InitMiner /\ [][NextSubmit]_vars

---------------------------------------------------------------------------
(* Properties of the chain *)

(* What happens in a step that appends a block. *)
Appends == Len(blocks') = Len(blocks) + 1

C2_AllBlocksWorked ==
    \A i \in 1..Len(blocks) :
        matches_target(HeaderHash(blocks[i].header), blocks[i].header.target)

(* C2 without the first block, which add_block takes unchecked: every      *)
(* block above the first has a header hash that is at most the target in   *)
(* its header.                                                             *)
C2_LaterBlocksWorked ==
    \A i \in 2..Len(blocks) :
        matches_target(HeaderHash(blocks[i].header), blocks[i].header.target)

(* A chain that grew on top of a first block without proof of work. *)
C2_Witness ==
    /\ Len(blocks) >= 2
    /\ ~matches_target(HeaderHash(blocks[1].header), blocks[1].header.target)

(* The inputs of a block's transactions after the coinbase each name a     *)
(* UTXO of the map, carry a signature that verifies under its public key,  *)
(* and name different UTXOs.                                               *)
InputsSpendable(block, u) ==
    LET ins == FlatInputs(NonCoinbase(block.transactions)) IN
    /\ \A i \in 1..Len(ins) :
        /\ ins[i].prev_tx_output_hash \in DOMAIN u
        /\ Verify(ins[i].signature, ins[i].prev_tx_output_hash,
                  u[ins[i].prev_tx_output_hash].output.pubkey)
    /\ \A i, j \in 1..Len(ins) :
        i # j => ins[i].prev_tx_output_hash # ins[j].prev_tx_output_hash

(* C3, as stated: whenever a block is appended, the first included, its    *)
(* inputs are spendable in the UTXO map of that moment.                    *)
C3_EveryBlockSpendable ==
    [][Appends => InputsSpendable(Last(blocks'), utxos)]_vars

(* C3 without the first block: whenever a block is appended to a chain     *)
(* that is not empty, its inputs are spendable in the UTXO map of that     *)
(* moment.                                                                 *)
C3_LaterBlocksSpendable ==
    [][Appends /\ Len(blocks) > 0 => InputsSpendable(Last(blocks'), utxos)]_vars

(* A block above the first that spends a UTXO. *)
C3_Witness ==
    \E i \in 2..Len(blocks) : Len(FlatInputs(NonCoinbase(blocks[i].transactions))) > 0

(* The coinbase outputs of the block add up to the reward of height h plus *)
(* the values of the UTXOs its other transactions spend minus the values   *)
(* of their outputs.                                                       *)
CoinbaseBalances(block, h, u) ==
    LET ins == FlatInputs(NonCoinbase(block.transactions)) IN
    /\ Len(block.transactions) > 0
    /\ \A i \in 1..Len(ins) : ins[i].prev_tx_output_hash \in DOMAIN u
    /\ SumExact(OutputValues(block.transactions[1].outputs))
         = Reward(h)
           + SumExact([i \in 1..Len(ins) |-> u[ins[i].prev_tx_output_hash].output.value])
           - SumExact(OutputValues(FlatOutputs(NonCoinbase(block.transactions))))

(* C4, as stated: whenever a block is appended its coinbase balances at    *)
(* its height; and on a chain of height HALVING_INTERVAL a mined block     *)
(* whose coinbase is the initial reward is rejected with                   *)
(* InvalidTransaction and one whose coinbase is half of it is accepted.    *)
C4_CoinbaseBalances ==
    [][/\ Appends => CoinbaseBalances(Last(blocks'), Len(blocks), utxos)
       /\ Len(blocks) = HALVING_INTERVAL =>
            \A oc \in OverflowChecks :
                LET last == Last(blocks)
                    at == last.header.timestamp + IDEAL_BLOCK_TIME * TicksPerSecond
                    full == Mined(at, BlockHash(last), target,
                                  <<Coinbase(INITIAL_REWARD * COIN)>>)
                    half == Mined(at, BlockHash(last), target,
                                  <<Coinbase((INITIAL_REWARD * COIN) \div 2)>>)
                IN  /\ matches_target(HeaderHash(full.header), target) =>
                          CheckBlock(blocks, utxos, full, oc) = "InvalidTransaction"
                    /\ matches_target(HeaderHash(half.header), target) =>
                          CheckBlock(blocks, utxos, half, oc) = "Ok"]_vars

(* A block above the first whose only transaction is a coinbase that pays  *)
(* more than the reward of its height.                                     *)
C4_Witness ==
    \E i \in 2..Len(blocks) :
        /\ Len(blocks[i].transactions) = 1
        /\ SumExact(OutputValues(blocks[i].transactions[1].outputs)) > Reward(i - 1)

---------------------------------------------------------------------------
(* Properties of the UTXO map and the mempool *)

BlockInputs(block) == FlatInputs(block.transactions)

BlockOutputs(block) == FlatOutputs(block.transactions)

(* The map holds every output of the block and none of the UTXOs the block *)
(* spends.                                                                 *)
BlockApplied(block, u) ==
    /\ \A j \in 1..Len(BlockOutputs(block)) :
        \E k \in DOMAIN u : u[k].output = BlockOutputs(block)[j]
    /\ \A i \in 1..Len(BlockInputs(block)) :
        BlockInputs(block)[i].prev_tx_output_hash \notin DOMAIN u

(* C5, as stated: when a connection handler has appended a block, the UTXO *)
(* map it leaves holds the outputs of the block and none of the UTXOs the  *)
(* block spends.                                                           *)
C5_HandlerAppliesBlock ==
    [][Appends /\ pc = "serve" => BlockApplied(Last(blocks'), utxos')]_vars

(* A transaction of the chain with two outputs of which the map holds the  *)
(* second under the transaction's hash, and the first nowhere.             *)
C5_Witness ==
    \E i \in 1..Len(blocks) : \E t \in 1..Len(blocks[i].transactions) :
        LET tx == blocks[i].transactions[t] IN
        /\ Len(tx.outputs) = 2
        /\ TxHash(tx) \in DOMAIN utxos
        /\ utxos[TxHash(tx)].output = tx.outputs[2]
        /\ \A k \in DOMAIN utxos : utxos[k].output # tx.outputs[1]

MarkedKeys == {k \in DOMAIN utxos : utxos[k].marked}

HeldKeys == UNION {InputKeys(mempool[i].tx) : i \in 1..Len(mempool)}

(* C6, as stated: the UTXOs that are marked are exactly the UTXOs that the *)
(* inputs of the mempool's transactions name.                              *)
C6_MarkedIsHeld == MarkedKeys = HeldKeys

(* A mempool transaction all of whose UTXOs are in the map and unmarked. *)
C6_Witness ==
    \E i \in 1..Len(mempool) :
        /\ InputKeys(mempool[i].tx) \subseteq DOMAIN utxos
        /\ InputKeys(mempool[i].tx) \cap MarkedKeys = {}

(* The outcomes of admitting a wallet transaction now, in a build without  *)
(* overflow checks, where the only panic left is a failed UTXO lookup.     *)
AdmissionOutcomes ==
    UNION {add_to_mempool(utxos, mempool, tx, now, FALSE) : tx \in WalletTxs(utxos)}

(* C7, as stated: every input of every mempool transaction names a key of  *)
(* the UTXO map, and no admission panics on a UTXO lookup.                 *)
C7_HeldKeysExist ==
    /\ HeldKeys \subseteq DOMAIN utxos
    /\ \A r \in AdmissionOutcomes : r.res # "panic"

(* A serving node with room in the mempool on which an admission panics. *)
C7_Witness ==
    /\ pc = "serve"
    /\ Len(mempool) < MaxMempool
    /\ \E r \in AdmissionOutcomes : r.res = "panic"

PoolTxs(mp) == {mp[i].tx : i \in 1..Len(mp)}

(* C8, as stated: when a transaction enters the mempool, every transaction *)
(* that was there and spends a UTXO the new one spends is gone and the     *)
(* UTXOs of the new one are marked; and no two entries of the mempool name *)
(* the same UTXO.                                                          *)
C8_ConflictEvicted ==
    [][/\ \A i \in 1..Len(mempool), j \in 1..Len(mempool') :
            (/\ mempool'[j].tx \notin PoolTxs(mempool)
             /\ InputKeys(mempool[i].tx) \cap InputKeys(mempool'[j].tx) # {})
            => /\ mempool[i].tx \notin PoolTxs(mempool')
               /\ \A k \in InputKeys(mempool'[j].tx) : k \in DOMAIN utxos' /\ utxos'[k].marked
       /\ \A i, j \in 1..Len(mempool') :
            i # j => InputKeys(mempool'[i].tx) \cap InputKeys(mempool'[j].tx) = {}]_vars

(* Two different transactions in the mempool that spend the same UTXO. *)
C8_Witness ==
    \E i, j \in 1..Len(mempool) :
        /\ mempool[i].tx # mempool[j].tx
        /\ InputKeys(mempool[i].tx) \cap InputKeys(mempool[j].tx) # {}

---------------------------------------------------------------------------
(* Properties of rebuild_utxos and of the target *)

(* C9, as stated: whatever the map held before, after rebuild_utxos it is  *)
(* the map that replaying the chain from an empty map gives.               *)
C9_RebuildIsReplay ==
    pc = "rebuilt" => utxos = ReplayBlocks(EmptyMap, blocks)

(* A rebuilt map with a key that no transaction of the chain has. *)
C9_Witness ==
    /\ pc = "rebuilt"
    /\ \E k \in DOMAIN utxos :
        \A i \in 1..Len(blocks) : k \notin TxHashes(blocks[i].transactions)

(* C10: from a new ledger the target never exceeds MIN_TARGET, and every   *)
(* step leaves a target between a quarter of and four times the one before.*)
C10_TargetBounded ==
    /\ [](target <= MIN_TARGET)
    /\ [][target' >= target \div 4 /\ target' <= target * 4]_vars

(* A chain that was retargeted down and then retargeted up. *)
C10_Witness ==
    /\ Len(blocks) = 2 * DIFICULTY_UPDATE_INTERVAL
    /\ target < MIN_TARGET
    /\ target > MIN_TARGET \div 4

---------------------------------------------------------------------------
(* Properties of add_block's results *)

(* The error kinds of BtcError that add_block returns. *)
ErrorKinds == {"InvalidBlock", "InvalidMerkleRoot", "InvalidTransaction", "InvalidSignature"}

(* A second first block for a chain of one block: previous hash zero. *)
SecondGenesis ==
    Mined(Last(blocks).header.timestamp + IDEAL_BLOCK_TIME * TicksPerSecond, Zero, target,
          <<Coinbase(Reward(Len(blocks)))>>)

(* C11: in every state in which the node takes blocks, for every block     *)
(* that may be offered, when add_block returns an error the chain, the     *)
(* target and the mempool it leaves are the ones it found (the UTXO map is *)
(* not among the fields add_block writes); and on a chain of one block a   *)
(* second block with a zero previous hash is answered InvalidBlock and the *)
(* chain keeps its one block.                                              *)
C11_ErrorLeavesLedger ==
    /\ Len(blocks) < MaxBlocks =>
        \A block \in CandidateBlocks(blocks, utxos, target, mempool), oc \in OverflowChecks :
            LET r == add_block(blocks, utxos, target, mempool, block, oc) IN
            r.res \in ErrorKinds =>
                /\ r.blocks = blocks
                /\ r.target = target
                /\ r.mempool = mempool
    /\ Len(blocks) = 1 =>
        \A oc \in OverflowChecks :
            LET r == add_block(blocks, utxos, target, mempool, SecondGenesis, oc) IN
            /\ r.res = "InvalidBlock"
            /\ Len(r.blocks) = 1

(* A serving node with a chain of one block whose mempool holds a          *)
(* transaction that an offered block contains, the block being refused.    *)
C11_Witness ==
    /\ pc = "serve"
    /\ Len(blocks) = 1
    /\ \E block \in CandidateBlocks(blocks, utxos, target, mempool), oc \in OverflowChecks :
        /\ add_block(blocks, utxos, target, mempool, block, oc).res \in ErrorKinds
        /\ \E i \in 1..Len(mempool) : TxHash(mempool[i].tx) \in TxHashes(block.transactions)

(* Blocks for the tip of a non-empty chain that fail any subset of the     *)
(* five checks: a previous hash of zero, no proof of work, a Merkle root   *)
(* of zero, the timestamp of the tip, a coinbase above the reward.         *)
FailingBlocks ==
    LET last == Last(blocks)
        regular == IDEAL_BLOCK_TIME * TicksPerSecond
        good == <<Coinbase(Reward(Len(blocks)))>>
        bad == <<Coinbase(Reward(Len(blocks)) + 1)>>
    IN  {Block(IF worked THEN mine(Header(last.header.timestamp + d, 0, prev,
                                          IF rooted THEN MerkleRoot(txs) ELSE Zero, target))
               ELSE Unmined(Header(last.header.timestamp + d, 0, prev,
                                   IF rooted THEN MerkleRoot(txs) ELSE Zero, target)),
               txs) :
            worked \in BOOLEAN, rooted \in BOOLEAN, d \in {0, regular},
            prev \in {BlockHash(last), Zero}, txs \in {good, bad}}

(* The checks a block fails on the chain, one by one. *)
FailsLinkage(block) == block.header.prev_block_hash # BlockHash(Last(blocks))

FailsWork(block) == ~matches_target(HeaderHash(block.header), block.header.target)

FailsMerkleRoot(block) == MerkleRoot(block.transactions) # block.header.merkle_root

FailsTimestamp(block) == block.header.timestamp <= Last(blocks).header.timestamp

FailsTransactions(block, oc) ==
    verify_transactions(block.transactions, Len(blocks), utxos, oc) \in
        {"InvalidTransaction", "InvalidSignature"}

(* The number of checks the block fails. *)
Failures(block, oc) ==
    Cardinality({c \in 1..5 :
        \/ c = 1 /\ FailsLinkage(block)
        \/ c = 2 /\ FailsWork(block)
        \/ c = 3 /\ FailsMerkleRoot(block)
        \/ c = 4 /\ FailsTimestamp(block)
        \/ c = 5 /\ FailsTransactions(block, oc)})

(* The result of add_block is the one the first failing check calls for. *)
FirstFailingCheck(block, oc) ==
    LET res == add_block(blocks, utxos, target, mempool, block, oc).res IN
    IF FailsLinkage(block) THEN res = "InvalidBlock"
    ELSE IF FailsWork(block) THEN res = "InvalidBlock"
    ELSE IF FailsMerkleRoot(block) THEN res = "InvalidMerkleRoot"
    ELSE IF FailsTimestamp(block) THEN res = "InvalidBlock"
    ELSE IF FailsTransactions(block, oc)
         THEN res = verify_transactions(block.transactions, Len(blocks), utxos, oc)
    ELSE res \notin ErrorKinds

(* C12: on a chain that is not empty, when add_block returns an error its  *)
(* kind is that of the first check the block fails, in the order linkage   *)
(* (InvalidBlock), proof of work (InvalidBlock), Merkle root               *)
(* (InvalidMerkleRoot), timestamp (InvalidBlock), transactions (the kind   *)
(* verify_transactions gives); and a block that fails a check gets an      *)
(* error.  The blocks of FailingBlocks hold a coinbase only, which no      *)
(* build treats differently.                                               *)
C12_FirstFailingCheck ==
    Len(blocks) > 0 =>
        /\ \A block \in FailingBlocks : FirstFailingCheck(block, FALSE)
        /\ \A block \in CandidateBlocks(blocks, utxos, target, mempool), oc \in OverflowChecks :
            FirstFailingCheck(block, oc)

(* A serving node that is offered a worked block with a wrong Merkle root, *)
(* a stale timestamp and a wrong coinbase, and a block with a wrong        *)
(* signature alone.                                                        *)
C12_Witness ==
    /\ pc = "serve"
    /\ Len(blocks) > 0
    /\ \E block \in FailingBlocks :
        /\ ~FailsLinkage(block) /\ ~FailsWork(block)
        /\ FailsMerkleRoot(block) /\ FailsTimestamp(block)
        /\ Failures(block, FALSE) = 3
    /\ \E block \in CandidateBlocks(blocks, utxos, target, mempool) :
        add_block(blocks, utxos, target, mempool, block, FALSE).res = "InvalidSignature"

(* A block with a zero previous hash whose only transaction is a coinbase  *)
(* with one output.                                                        *)
SingleCoinbase(block) ==
    /\ block.header.prev_block_hash = Zero
    /\ Len(block.transactions) = 1
    /\ Len(block.transactions[1].inputs) = 0
    /\ Len(block.transactions[1].outputs) = 1

(* C13, as stated: on an empty chain every offered block with a zero       *)
(* previous hash and a single coinbase output is accepted, and when a      *)
(* serving node's handler (NewBlock or SubmitTemplate) has appended it the *)
(* chain has one block and the UTXO map exactly one entry, unmarked.       *)
C13_FirstBlockGivesOneUtxo ==
    /\ [](Len(blocks) = 0 =>
            \A block \in GenesisBlocks, oc \in OverflowChecks :
                SingleCoinbase(block) =>
                    LET r == add_block(blocks, utxos, target, mempool, block, oc) IN
                    r.res = "Ok" /\ Len(r.blocks) = 1)
    /\ [][(pc = "serve" /\ Len(blocks) = 0 /\ Len(blocks') = 1 /\ SingleCoinbase(blocks'[1])) =>
            /\ Cardinality(DOMAIN utxos') = 1
            /\ \A k \in DOMAIN utxos' : ~utxos'[k].marked]_vars

(* A serving node whose chain is one block of a single coinbase output and *)
(* whose UTXO map is empty.                                                *)
C13_Witness ==
    /\ pc = "serve"
    /\ Len(blocks) = 1
    /\ SingleCoinbase(blocks[1])
    /\ utxos = EmptyMap

---------------------------------------------------------------------------
(* Properties of the connection tasks *)

(* The nodes of a sequence of send results. *)
SentTo(sent) == [i \in 1..Len(sent) |-> sent[i].node]

(* The stream ends with the frame of the message. *)
EndsWithFrame(stream, message) ==
    /\ Len(stream) >= 2
    /\ SubSeq(stream, Len(stream) - 1, Len(stream)) = send_async(message)

(* C14: a handler that has admitted a SubmitTransaction sends to every     *)
(* peer of NODES once: the peers it has sent to and the peers it has yet   *)
(* to send to are together each peer once, at the end of the arm it has    *)
(* sent to every peer, every send that succeeded has left the frame of     *)
(* NewTransaction at the end of that peer's stream, and the handler has    *)
(* not ended, whatever sends failed.                                       *)
C14_BroadcastReachesEveryPeer ==
    \A t \in DOMAIN tasks :
        LET task == tasks[t] IN
        task.message.kind = "SubmitTransaction" =>
            /\ task.at \in {"send_len", "send_payload", "release"} =>
                /\ SentTo(task.sent) \o task.nodes \in PeerOrders
                /\ task.at = "release" => Len(task.sent) = MaxPeers
                /\ \A i \in 1..Len(task.sent) :
                    task.sent[i].ok =>
                        EndsWithFrame(NODES[task.sent[i].node].bytes,
                                      [kind |-> "NewTransaction", body |-> task.message.body])
            /\ task.at \in Ended => task.sent = <<>> /\ task.nodes = <<>>

(* A handler at the end of the SubmitTransaction arm whose first send      *)
(* failed and whose second send succeeded.                                 *)
C14_Witness ==
    \E t \in DOMAIN tasks :
        /\ tasks[t].message.kind = "SubmitTransaction"
        /\ tasks[t].at = "release"
        /\ Len(tasks[t].sent) = MaxPeers
        /\ ~tasks[t].sent[1].ok
        /\ tasks[t].sent[2].ok

(* C15: at most one task holds the write guard of BLOCKCHAIN, no task      *)
(* holds a read guard while one holds the write guard, a task that is      *)
(* about to change the ledger holds the write guard, and while a           *)
(* SubmitTemplate handler is between add_block and rebuild_utxos it holds  *)
(* the write guard and no other task holds a guard.                        *)
C15_WritersExclusive ==
    /\ Cardinality(Holders("write")) <= 1
    /\ Holders("write") # {} => Holders("read") = {}
    /\ \A t \in DOMAIN tasks :
        /\ tasks[t].at = "mutate" => tasks[t].guard = "write"
        /\ tasks[t].at = "rebuild" =>
            /\ tasks[t].guard = "write"
            /\ \A other \in DOMAIN tasks \ {t} : tasks[other].guard = "none"

(* A SubmitTemplate handler between add_block and rebuild_utxos while      *)
(* another task waits for a read guard.                                    *)
C15_Witness ==
    \E t \in DOMAIN tasks, other \in DOMAIN tasks :
        /\ tasks[t].at = "rebuild"
        /\ Len(blocks) = 1 /\ utxos = EmptyMap
        /\ tasks[other].at = "lock"
        /\ tasks[other].message.kind = "FetchUTXOs"

(* The chunks of a stream are whole frames, each length prefix followed at *)
(* once by the payload of the same message, but for a length prefix at the *)
(* very end.                                                               *)
WellFramed(stream) ==
    \A i \in 1..Len(stream) :
        /\ stream[i].part = "len" =>
            i = Len(stream) \/ stream[i + 1] = [part |-> "payload", of |-> stream[i].of]
        /\ stream[i].part = "payload" =>
            i > 1 /\ stream[i - 1] = [part |-> "len", of |-> stream[i].of]

(* C16: whatever the handlers do, every stream of NODES holds whole frames *)
(* one after the other; a length prefix without its payload is the last    *)
(* chunk of its stream, and then the stream is broken or a handler is      *)
(* about to write that payload.                                            *)
C16_FramesContiguous ==
    \A p \in DOMAIN NODES :
        LET stream == NODES[p].bytes IN
        /\ WellFramed(stream)
        /\ (Len(stream) > 0 /\ Last(stream).part = "len") =>
            \/ ~NODES[p].up
            \/ \E t \in DOMAIN tasks :
                /\ tasks[t].at = "send_payload"
                /\ tasks[t].nodes[1] = p
                /\ Gossip(tasks[t].message) = Last(stream).of

(* A stream with the frame of a NewBlock and then the frame of a           *)
(* NewTransaction, the handler of the latter at the end of its arm.        *)
C16_Witness ==
    \E p \in DOMAIN NODES :
        /\ Len(NODES[p].bytes) = 4
        /\ NODES[p].bytes[1].of.kind = "NewBlock"
        /\ NODES[p].bytes[3].of.kind = "NewTransaction"
        /\ tasks[1].at = "release" /\ tasks[1].message.kind = "SubmitTransaction"
        /\ Len(blocks) = 1

(* C17: a task that has been dropped holds no guard, neither on BLOCKCHAIN *)
(* nor on an entry of NODES; and the step that drops a task leaves the     *)
(* ledger as it is and does not take the task from between add_block and  *)
(* rebuild_utxos, the one position at which a mutation is half done.       *)
C17_DropLeavesWholeMutations ==
    /\ [](\A t \in DOMAIN tasks :
            tasks[t].at = "dropped" =>
                /\ tasks[t].guard = "none"
                /\ \A p \in DOMAIN NODES : NODES[p].guard # t)
    /\ [][\A t \in DOMAIN tasks :
            (tasks[t].at # "dropped" /\ tasks'[t].at = "dropped") =>
                /\ tasks[t].at # "rebuild"
                /\ UNCHANGED <<blocks, utxos, target, mempool>>]_vars

(* A task was dropped between the two writes of a frame, under the write   *)
(* guard, and another task has the write guard now.                        *)
C17_Witness ==
    /\ \E p \in DOMAIN NODES :
        /\ NODES[p].up
        /\ Len(NODES[p].bytes) > 0
        /\ Last(NODES[p].bytes).part = "len"
        /\ NODES[p].guard = 0
    /\ \E t \in DOMAIN tasks, other \in DOMAIN tasks :
        /\ tasks[t].at = "dropped"
        /\ tasks[other].guard = "write"

(* C18, as stated: no handler of a message that is answered on the socket  *)
(* (FetchBlock, DiscoverNodes, AskDifference, FetchUTXOs, ValidateTemplate, *)
(* FetchTemplate) ends by a panic; when the reply cannot be sent it        *)
(* returns, as it does when the receive fails.                             *)
C18_RepliesNeverPanic ==
    \A t \in DOMAIN tasks :
        tasks[t].message.kind \in ReplyKinds => tasks[t].at # "panicked"

(* One task ended by a panic on the reply to FetchUTXOs, the other by a    *)
(* panic on the reply to DiscoverNodes; neither holds a guard.             *)
C18_Witness ==
    /\ tasks[1].at = "panicked" /\ tasks[1].message.kind = "FetchUTXOs"
    /\ tasks[2].at = "panicked" /\ tasks[2].message.kind = "DiscoverNodes"
    /\ Holders("read") = {} /\ Holders("write") = {}

---------------------------------------------------------------------------
(* Properties of the snapshot and of the wire *)

C20_RecvReturnsWhatWasSent ==
    /\ Len(wire.received) <= Len(wire.sent)
    /\ wire.received = SubSeq(wire.sent, 1, Len(wire.received))
    /\ (wire.closed /\ Len(wire.stream) = 0) => wire.received = wire.sent
    /\ Len(wire.stream) > 0 => recv(wire.stream, LengthBytes).res = "Ok"

(* On a build with a usize of four bytes two messages went out with send   *)
(* and the receiver got an error.                                          *)
C20_Witness ==
    /\ wire.usize = 4
    /\ Len(wire.sent) = 2
    /\ wire.closed
    /\ wire.received = <<WireError>>

---------------------------------------------------------------------------
(* Properties of the blocks and of the mempool the ledger keeps *)

(* The positions behind the first at which the block has a transaction     *)
(* without inputs.                                                         *)
LaterCoinbases(block) ==
    {j \in 2..Len(block.transactions) : Len(block.transactions[j].inputs) = 0}

(* C21: no block accepted by add_block, that is no block of the chain, has *)
(* a transaction with empty inputs at a position other than the first.     *)
C21_CoinbaseOnlyFirst ==
    \A i \in 1..Len(blocks) : LaterCoinbases(blocks[i]) = {}

(* A block that went through the checks of a non-empty chain and has a     *)
(* second transaction without inputs.                                      *)
C21_Witness ==
    \E i \in 2..Len(blocks) : LaterCoinbases(blocks[i]) # {}

---------------------------------------------------------------------------
(* Properties of the handler's answers to what the ledger refuses *)

(* Task t is about to hand the ledger a message that the ledger refuses on *)
(* every build.                                                            *)
Refused(t) ==
    /\ tasks[t].at = "mutate"
    /\ IF tasks[t].message.kind \in {"NewBlock", "SubmitTemplate"}
       THEN \A oc \in OverflowChecks :
                CheckBlock(blocks, utxos, tasks[t].message.body, oc) \in ErrorKinds
       ELSE \A oc \in OverflowChecks :
                \A r \in add_to_mempool(utxos, mempool, tasks[t].message.body, now, oc) :
                    r.res \in ErrorKinds

GossipKinds == {"NewBlock", "NewTransaction"}

(* C22, as claimed: when the ledger refuses a NewBlock or a NewTransaction *)
(* the handler goes on to the end of the match arm and from there back to  *)
(* receiving, the connection kept.                                         *)
C22_RefusedGossipContinues ==
    [][\A t \in Tasks :
        /\ tasks[t].at = "release" /\ tasks'[t] # tasks[t] => tasks'[t] = Spawned
        /\ Refused(t) /\ tasks[t].message.kind \in GossipKinds /\ tasks'[t] # tasks[t] =>
            tasks'[t].at = "release"]_vars

(* C22, amended: when add_block refuses a NewBlock the handler goes on to  *)
(* the end of the match arm and from there back to receiving, the          *)
(* connection kept; when add_to_mempool refuses a NewTransaction the       *)
(* handler returns, which closes the connection, its guard let go.         *)
C22_RefusedBlockContinues ==
    [][\A t \in Tasks :
        /\ tasks[t].at = "release" /\ tasks'[t] # tasks[t] => tasks'[t] = Spawned
        /\ Refused(t) /\ tasks'[t] # tasks[t] =>
            CASE tasks[t].message.kind = "NewBlock" -> tasks'[t].at = "release"
              [] tasks[t].message.kind = "NewTransaction" ->
                    tasks'[t].at = "returned" /\ tasks'[t].guard = "none"
              [] OTHER -> TRUE]_vars

(* One task at the end of the match arm of a NewBlock whose block is not   *)
(* in the chain, another returned from the match arm of a NewTransaction.  *)
C22_Witness ==
    \E t \in Tasks, other \in Tasks :
        /\ tasks[t].at = "release"
        /\ tasks[t].message.kind = "NewBlock"
        /\ \A i \in 1..Len(blocks) : blocks[i] # tasks[t].message.body
        /\ tasks[other].at = "returned"
        /\ tasks[other].message.kind = "NewTransaction"

---------------------------------------------------------------------------
(* Properties of the retargeting *)

(* The target the interval ending with the last block of bs asks for:      *)
(* min(clamp(floor(t * elapsed / (IDEAL_BLOCK_TIME * INTERVAL)), t / 4,    *)
(* t * 4), MIN_TARGET), elapsed being the whole seconds from the first to  *)
(* the last block of the interval.                                         *)
Elapsed(bs) ==
    (Last(bs).header.timestamp
        - bs[Len(bs) - DIFICULTY_UPDATE_INTERVAL + 1].header.timestamp) \div TicksPerSecond

Retargeted(bs, t) ==
    LET raw == (t * Elapsed(bs)) \div (IDEAL_BLOCK_TIME * DIFICULTY_UPDATE_INTERVAL)
        low == t \div 4
        high == t * 4
        clamped == IF raw < low THEN low ELSE IF raw > high THEN high ELSE raw
    IN  IF clamped < MIN_TARGET THEN clamped ELSE MIN_TARGET

(* C23: whenever a block is appended and the chain's length becomes a      *)
(* multiple of DIFICULTY_UPDATE_INTERVAL, the target after the append is   *)
(* the retargeted one; and when the blocks of the interval lie within one  *)
(* second it is a quarter of the target before.                            *)
C23_RetargetOnInterval ==
    [][(Len(blocks') = Len(blocks) + 1 /\ Len(blocks') % DIFICULTY_UPDATE_INTERVAL = 0) =>
        /\ target' = Retargeted(blocks', target)
        /\ Elapsed(blocks') <= 1 => target' = target \div 4]_vars

(* A chain at the end of an interval that took so long that the product    *)
(* does not fit a U256, the target still below a quarter of MIN_TARGET.    *)
C23_Witness ==
    /\ Len(blocks) > 0
    /\ Len(blocks) % DIFICULTY_UPDATE_INTERVAL = 0
    /\ (target * Elapsed(blocks)) \div (IDEAL_BLOCK_TIME * DIFICULTY_UPDATE_INTERVAL)
            >= U256Modulus
    /\ target * 4 <= MIN_TARGET

---------------------------------------------------------------------------
(* Properties of what a successful add_block leaves *)

(* The entries of mp whose transaction is not in the block, in mp's order. *)
NotInBlock(mp, block) ==
    LET kept(entry) ==
            \A j \in 1..Len(block.transactions) : TxHash(entry.tx) # TxHash(block.transactions[j])
    IN  SelectSeq(mp, kept)

(* C24: in every state in which the node takes blocks, for every block     *)
(* that may be offered, when add_block returns Ok the chain it leaves is   *)
(* the old chain with the block appended and the mempool it leaves is the  *)
(* old one without the entries whose transaction hash is the hash of a     *)
(* transaction of the block, the others in their order; and in every step  *)
(* that appends a block the UTXO map stays as it was, unless the handler   *)
(* went on to rebuild it.                                                  *)
C24_AppendRetainsOthers ==
    /\ [](Len(blocks) < MaxBlocks =>
            \A block \in CandidateBlocks(blocks, utxos, target, mempool), oc \in OverflowChecks :
                LET r == add_block(blocks, utxos, target, mempool, block, oc) IN
                r.res = "Ok" =>
                    /\ Len(r.blocks) = Len(blocks) + 1
                    /\ Last(r.blocks) = block
                    /\ SubSeq(r.blocks, 1, Len(blocks)) = blocks
                    /\ r.mempool = NotInBlock(mempool, block))
    /\ [][Appends =>
            /\ SubSeq(blocks', 1, Len(blocks)) = blocks
            /\ pc = "boot" => utxos' = utxos
            /\ utxos' # utxos => utxos' = rebuild_utxos(utxos, blocks')]_vars

(* A mempool of two entries and a block that add_block accepts, of which   *)
(* it leaves one entry.                                                    *)
C24_Witness ==
    /\ Len(mempool) = 2
    /\ Len(blocks) < MaxBlocks
    /\ \E block \in CandidateBlocks(blocks, utxos, target, mempool), oc \in OverflowChecks :
        LET r == add_block(blocks, utxos, target, mempool, block, oc) IN
        r.res = "Ok" /\ Len(r.mempool) = 1

---------------------------------------------------------------------------
(* Properties of the mempool's order *)

(* The fee of a transaction: the values of the UTXOs its inputs name,      *)
(* those that are in the map, less the values of its outputs.              *)
FeeOf(tx, u) ==
    SumExact([i \in 1..Len(tx.inputs) |->
                IF tx.inputs[i].prev_tx_output_hash \in DOMAIN u
                THEN u[tx.inputs[i].prev_tx_output_hash].output.value ELSE 0])
    - SumExact(OutputValues(tx.outputs))

SortedByFee ==
    \A i, j \in 1..Len(mempool) : i < j =>
        FeeOf(mempool[i].tx, utxos) <= FeeOf(mempool[j].tx, utxos)

(* The step admits a transaction: the mempool has an entry at position p   *)
(* that it did not have, and the entries around it are the old ones.       *)
AdmittedAt(p) ==
    /\ p \in 1..Len(mempool')
    /\ Len(mempool') = Len(mempool) + 1
    /\ RemoveAt(mempool', p) = mempool

(* C26: the mempool is always in the order of non-decreasing fee, and a    *)
(* transaction that is admitted goes behind the entries of the same fee    *)
(* (so that entries of equal fee are in the order of their admission).     *)
C26_MempoolSortedByFee ==
    /\ []SortedByFee
    /\ [][(\E p \in 1..Len(mempool') : AdmittedAt(p)) =>
            \E p \in 1..Len(mempool') :
                /\ AdmittedAt(p)
                /\ \A i \in 1..Len(mempool') :
                    FeeOf(mempool'[i].tx, utxos') = FeeOf(mempool'[p].tx, utxos') => i <= p]_vars

(* A mempool of two entries the first of which has the greater fee, every  *)
(* input of both naming a UTXO that is in the map.                         *)
C26_Witness ==
    /\ Len(mempool) = 2
    /\ HeldKeys \subseteq DOMAIN utxos
    /\ FeeOf(mempool[1].tx, utxos) > FeeOf(mempool[2].tx, utxos)

---------------------------------------------------------------------------
(* Properties of the block template *)

(* The number of mempool transactions a template takes. *)
Taken == IF Len(mempool) < BLOCK_TRANSACTION_CAP THEN Len(mempool) ELSE BLOCK_TRANSACTION_CAP

(* The block reward of the chain's height and the fees of the mempool      *)
(* transactions a template takes, as a number.                             *)
RewardAndFees ==
    Reward(Len(blocks)) + SumExact([i \in 1..Taken |-> FeeOf(mempool[i].tx, utxos)])

---------------------------------------------------------------------------
(* C27 *)

Aged(entry) == now - entry.timestamp > MAX_MEMPOOL_TRANSACTION_AGE * TicksPerSecond

IsFresh(entry) == ~Aged(entry)

AgedKeys == UNION {InputKeys(mempool[i].tx) : i \in {j \in 1..Len(mempool) : Aged(mempool[j])}}

(* C27: a run of cleanup_mempool leaves in the mempool exactly the entries *)
(* that are not older than MAX_MEMPOOL_TRANSACTION_AGE seconds, in their   *)
(* order, clears the mark of the UTXOs that the inputs of the removed      *)
(* entries name, and changes no other UTXO, no block and not the target.   *)
C27_CleanupFrame ==
    [][Cleanup =>
        /\ mempool' = SelectSeq(mempool, IsFresh)
        /\ DOMAIN utxos' = DOMAIN utxos
        /\ \A k \in DOMAIN utxos :
            IF k \in AgedKeys
            THEN utxos'[k] = [utxos[k] EXCEPT !.marked = FALSE]
            ELSE utxos'[k] = utxos[k]
        /\ UNCHANGED <<blocks, target>>]_vars

(* The cleanup is about to remove an entry that holds a marked UTXO, and *)
(* to keep an entry behind it.                                           *)
C27_Witness ==
    /\ pc = "serve"
    /\ \E i, j \in 1..Len(mempool) :
        /\ i < j
        /\ Aged(mempool[i])
        /\ IsFresh(mempool[j])
        /\ \E k \in InputKeys(mempool[i].tx) : k \in DOMAIN utxos /\ utxos[k].marked
    /\ \E k \in DOMAIN utxos : k \notin AgedKeys /\ utxos[k].marked

---------------------------------------------------------------------------
(* C28 *)

InputsValue(tx, u) ==
    SumExact([i \in 1..Len(tx.inputs) |-> u[tx.inputs[i].prev_tx_output_hash].output.value])

OutputsValue(tx) == SumExact(OutputValues(tx.outputs))

(* A list of transactions that is in order but for the balance of one      *)
(* non-coinbase transaction: the coinbase has no inputs and has outputs;   *)
(* every input of the others names a UTXO, is signed by its owner and is   *)
(* named once in the list; one of them pays out more than it takes in.     *)
ImbalancedOnly(txs, u) ==
    /\ Len(txs) >= 2
    /\ Len(txs[1].inputs) = 0
    /\ Len(txs[1].outputs) > 0
    /\ LET ins == FlatInputs(NonCoinbase(txs)) IN
        /\ \A i \in 1..Len(ins) :
            /\ ins[i].prev_tx_output_hash \in DOMAIN u
            /\ Verify(ins[i].signature, ins[i].prev_tx_output_hash,
                      u[ins[i].prev_tx_output_hash].output.pubkey)
        /\ \A i, j \in 1..Len(ins) :
            ins[i].prev_tx_output_hash = ins[j].prev_tx_output_hash => i = j
    /\ \E i \in 2..Len(txs) : OutputsValue(txs[i]) > InputsValue(txs[i], u)

(* The blocks of NextBlocks that carry a list of transactions under a      *)
(* regular header.                                                         *)
RegularBlock(txs) ==
    Mined(Last(blocks).header.timestamp + 10 * TicksPerSecond, BlockHash(Last(blocks)),
          target, txs)

(* The header passes lines 54-84: previous hash, proof of work, Merkle    *)
(* root and timestamp.                                                     *)
HeaderInOrder(block) ==
    /\ block.header.prev_block_hash = BlockHash(Last(blocks))
    /\ matches_target(HeaderHash(block.header), block.header.target)
    /\ MerkleRoot(block.transactions) = block.header.merkle_root
    /\ block.header.timestamp > Last(blocks).header.timestamp

(* C28: on a non-empty chain, add_block of a block that is in order but    *)
(* for a non-coinbase transaction whose outputs sum to more than its       *)
(* inputs returns InvalidTransaction, with and without overflow checks.    *)
C28_ImbalanceIsInvalidTransaction ==
    (pc = "serve" /\ Len(blocks) > 0 /\ Len(blocks) < MaxBlocks) =>
        \A txs \in TxLists(utxos, mempool, Len(blocks)), oc \in OverflowChecks :
            (ImbalancedOnly(txs, utxos) /\ HeaderInOrder(RegularBlock(txs))) =>
                add_block(blocks, utxos, target, mempool, RegularBlock(txs), oc).res
                    = "InvalidTransaction"

(* Such a block is offered, and a build without overflow checks refuses it *)
(* with InvalidTransaction.                                                *)
C28_Witness ==
    /\ pc = "serve"
    /\ Len(blocks) > 0
    /\ Len(blocks) < MaxBlocks
    /\ \E txs \in TxLists(utxos, mempool, Len(blocks)) :
        /\ ImbalancedOnly(txs, utxos)
        /\ HeaderInOrder(RegularBlock(txs))
        /\ add_block(blocks, utxos, target, mempool, RegularBlock(txs), FALSE).res
            = "InvalidTransaction"

---------------------------------------------------------------------------
(* C29 *)

ChainTxs(bs) ==
    UNION {{bs[i].transactions[t] : t \in 1..Len(bs[i].transactions)} : i \in 1..Len(bs)}

ChainHashes(bs) == {TxHash(tx) : tx \in ChainTxs(bs)}

(* The entries of the map u that the transaction has put there: those      *)
(* under its hash that hold one of its outputs.                            *)
EntriesOf(tx, u) ==
    {k \in DOMAIN u : k = TxHash(tx) /\ \E j \in 1..Len(tx.outputs) : u[k].output = tx.outputs[j]}

(* A step that runs rebuild_utxos over the chain it leaves. *)
Rebuilds == utxos' = rebuild_utxos(utxos, blocks')

(* C29: after rebuild_utxos the map has no key that it did not have before *)
(* but the hashes of the chain's transactions; under the hash of a chain   *)
(* transaction it holds, if anything, that transaction's last output,      *)
(* unmarked; and an earlier output of a transaction with several outputs   *)
(* is held under no key.                                                   *)
C29_LastOutputPerTransaction ==
    [][Rebuilds =>
        /\ DOMAIN utxos' \subseteq DOMAIN utxos \cup ChainHashes(blocks')
        /\ \A tx \in ChainTxs(blocks') :
            /\ Cardinality(EntriesOf(tx, utxos')) <= 1
            /\ (Len(tx.outputs) > 0 /\ TxHash(tx) \in DOMAIN utxos') =>
                    utxos'[TxHash(tx)] = [marked |-> FALSE, output |-> Last(tx.outputs)]
            /\ \A j \in 1..(Len(tx.outputs) - 1) :
                \A k \in DOMAIN utxos' : utxos'[k].output # tx.outputs[j]]_vars

(* The chain has a transaction with two outputs; the map holds the second  *)
(* under the transaction's hash and the first under no key.                *)
C29_Witness ==
    /\ pc \in {"rebuilt", "serve"}
    /\ \E tx \in ChainTxs(blocks) :
        /\ Len(tx.outputs) = 2
        /\ TxHash(tx) \in DOMAIN utxos
        /\ utxos[TxHash(tx)].output = tx.outputs[2]
        /\ \A k \in DOMAIN utxos : utxos[k].output # tx.outputs[1]

---------------------------------------------------------------------------
(* C30 *)

SubmitKinds == {"SubmitTemplate", "SubmitTransaction"}

(* What the peers have been sent: the bytes on the streams of NODES. *)
SentToPeers == [p \in DOMAIN NODES |-> NODES[p].bytes]

(* C30: when add_block refuses the block of a SubmitTemplate, or           *)
(* add_to_mempool the transaction of a SubmitTransaction, the handler      *)
(* returns, which closes the connection, with its guard let go and no      *)
(* entry of NODES taken, and nothing is written to a peer; a handler that  *)
(* has returned makes no further step.                                     *)
C30_RefusedSubmitNotBroadcast ==
    [][\A t \in Tasks :
        /\ (Refused(t) /\ tasks[t].message.kind \in SubmitKinds /\ tasks'[t] # tasks[t]) =>
            /\ tasks'[t].at = "returned"
            /\ tasks'[t].guard = "none"
            /\ tasks'[t].sent = <<>>
            /\ SentToPeers' = SentToPeers
            /\ \A p \in DOMAIN NODES : NODES'[p].guard # t
        /\ tasks[t].at = "returned" => tasks'[t] = tasks[t]]_vars

(* A handler has returned from a SubmitTemplate whose block is not in the  *)
(* chain, another from a SubmitTransaction whose transaction is not in the *)
(* mempool, and no peer has been sent anything.                            *)
C30_Witness ==
    \E t \in Tasks, other \in Tasks :
        /\ tasks[t].at = "returned"
        /\ tasks[t].message.kind = "SubmitTemplate"
        /\ \A i \in 1..Len(blocks) : blocks[i] # tasks[t].message.body
        /\ tasks[other].at = "returned"
        /\ tasks[other].message.kind = "SubmitTransaction"
        /\ \A i \in 1..Len(mempool) : mempool[i].tx # tasks[other].message.body
        /\ \A p \in DOMAIN NODES : NODES[p].bytes = <<>>

---------------------------------------------------------------------------
(* C31 *)

(* The UTXOs that the inputs of the block's transactions name. *)
SpentBy(block) ==
    {BlockInputs(block)[i].prev_tx_output_hash : i \in 1..Len(BlockInputs(block))}

(* C31: no UTXO is named by inputs of two blocks of the chain. *)
C31_NoUtxoSpentByTwoBlocks ==
    \A i, j \in 1..Len(blocks) : i < j => SpentBy(blocks[i]) \cap SpentBy(blocks[j]) = {}

(* Two blocks of the chain name the same UTXO, and both were checked by    *)
(* add_block: neither is the first.                                        *)
C31_Witness ==
    \E i, j \in 2..Len(blocks) : i < j /\ SpentBy(blocks[i]) \cap SpentBy(blocks[j]) # {}

---------------------------------------------------------------------------
(* C32 *)

(* C32: a block that is appended to a chain that is not empty has in its   *)
(* header the target that the ledger has when it is appended.              *)
C32_AcceptedAtLedgerTarget ==
    [][(Appends /\ Len(blocks) > 0) => Last(blocks').header.target = target]_vars

(* A block of the chain, not the first, whose header declares a target     *)
(* above MIN_TARGET, the easiest target the ledger ever has.               *)
C32_Witness ==
    \E i \in 2..Len(blocks) : blocks[i].header.target > MIN_TARGET

---------------------------------------------------------------------------
(* C33 *)

(* The template that the miner holds, mined: only the nonce is changed. *)
MinedTemplate ==
    Block(mine(template[1].block.header), template[1].block.transactions)

(* The miner holds a template that it can submit: the mined header's hash  *)
(* is not above its target, the template was made on the chain's last      *)
(* block, and its timestamp is later than that block's.                    *)
Submittable ==
    /\ template # <<>>
    /\ matches_target(HeaderHash(MinedTemplate.header), MinedTemplate.header.target)
    /\ MinedTemplate.header.prev_block_hash =
            (IF Len(blocks) = 0 THEN Zero ELSE BlockHash(Last(blocks)))
    /\ Len(blocks) > 0 => MinedTemplate.header.timestamp > Last(blocks).header.timestamp

(* C33: when the miner submits a template that FetchTemplate gave it,      *)
(* mined, made on the chain's last block and later than it, the block is   *)
(* appended to the chain.                                                  *)
C33_MinedTemplateAccepted ==
    [][(Submittable /\ template' = <<>>) => blocks' = Append(blocks, MinedTemplate)]_vars

(* The miner holds such a template with a transaction of the mempool in    *)
(* it, and add_block refuses it on every build.                            *)
C33_Witness ==
    /\ Submittable
    /\ Len(blocks) < MaxBlocks
    /\ Len(MinedTemplate.transactions) > 1
    /\ \A oc \in OverflowChecks :
        add_block(blocks, utxos, target, mempool, MinedTemplate, oc).res \in ErrorKinds

---------------------------------------------------------------------------
(* C34 *)

(* What add_to_mempool may leave of the ledger for the transaction. *)
Outcomes(tx) ==
    UNION {add_to_mempool(utxos, mempool, tx, now, oc) : oc \in OverflowChecks}

(* C34: when add_to_mempool returns an error, the mempool and the mark of  *)
(* every UTXO are as they were before the call.                            *)
C34_ErrorLeavesMempoolAndMarks ==
    (pc = "serve" /\ Len(mempool) < MaxMempool) =>
        \A tx \in WalletTxs(utxos) : \A r \in Outcomes(tx) :
            r.res \in ErrorKinds =>
                /\ r.mempool = mempool
                /\ DOMAIN r.utxos = DOMAIN utxos
                /\ \A k \in DOMAIN utxos : r.utxos[k].marked = utxos[k].marked

(* A transaction of the mempool holds a UTXO, marked, and the wallet sends *)
(* a transaction that names that UTXO and pays more than it holds, which   *)
(* add_to_mempool refuses.                                                 *)
C34_Witness ==
    /\ pc = "serve"
    /\ Len(mempool) < MaxMempool
    /\ \E k \in Spendable(utxos) :
        /\ utxos[k].marked
        /\ k \in HeldKeys
        /\ \E r \in Outcomes(Spend(utxos, <<k>>, Wrap64(utxos[k].output.value + 1))) :
            r.res = "InvalidTransaction"

---------------------------------------------------------------------------
(* C35 *)

(* The ledgers a node may start with after a restart: load of a file that  *)
(* save wrote from the ledger as it is.                                    *)
Restarted == {load(file) : file \in save(Ledger)}

(* C35: the ledger that a node loads from a snapshot saved while the       *)
(* mempool held transactions has an empty mempool and no marked UTXO.      *)
C35_RestartClearsMarks ==
    (pc = "serve" /\ Len(mempool) > 0) =>
        \A loaded \in Restarted :
            /\ loaded.mempool = <<>>
            /\ \A k \in DOMAIN loaded.utxos : ~loaded.utxos[k].marked

(* A snapshot is saved while a transaction of the mempool holds a marked   *)
(* UTXO; the loaded ledger has no mempool entry and the UTXO, marked.      *)
C35_Witness ==
    /\ pc = "serve"
    /\ Len(mempool) > 0
    /\ \E k \in HeldKeys : k \in DOMAIN utxos /\ utxos[k].marked
    /\ \E loaded \in Restarted :
        /\ loaded.mempool = <<>>
        /\ \E k \in DOMAIN loaded.utxos : loaded.utxos[k].marked

---------------------------------------------------------------------------
(* C36 *)

(* C36: the try_adjust_target at the end of the bootstrap leaves the       *)
(* target as the download left it, add_block having adjusted it for every  *)
(* chain length that is a multiple of DIFICULTY_UPDATE_INTERVAL.           *)
C36_BootAdjustKeepsTarget ==
    [][(pc = "boot_adjust" /\ pc' # pc) => target' = target]_vars

(* The bootstrap is over and has adjusted the target twice for one chain   *)
(* length: the target is below a quarter of MIN_TARGET on a chain of one   *)
(* interval.                                                               *)
C36_Witness ==
    /\ pc = "serve"
    /\ Len(blocks) = DIFICULTY_UPDATE_INTERVAL
    /\ target < MIN_TARGET \div 4

---------------------------------------------------------------------------
(* A miner that goes on for many blocks *)

MaxRounds == 40

(* One round of the miner of key 1, a round each IDEAL_BLOCK_TIME: it      *)
(* fetches a template (handler.rs lines 161-211), mines it and submits it  *)
(* (lines 102-113: add_block, then rebuild_utxos); a round whose template  *)
(* has no nonce within MaxNonce, or is refused, leaves the chain.          *)
MineRound ==
    /\ pc = "serve"
    /\ template = <<>>
    /\ now < MaxRounds * IDEAL_BLOCK_TIME * TicksPerSecond
    /\ \E oc \in OverflowChecks :
        LET unique_id == now \div (IDEAL_BLOCK_TIME * TicksPerSecond) + 1
            reply == FetchTemplateReply(blocks, utxos, target, mempool, 1, unique_id, now, oc)
            block == Block(mine(reply.block.header), reply.block.transactions)
            r == add_block(blocks, utxos, target, mempool, block, oc)
        IN  IF reply.res # "Ok" THEN UNCHANGED <<blocks, utxos, target, mempool>>
            ELSE /\ blocks' = r.blocks
                 /\ target' = r.target
                 /\ mempool' = r.mempool
                 /\ utxos' = IF r.res = "Ok" THEN rebuild_utxos(utxos, r.blocks) ELSE utxos
    /\ now' = now + IDEAL_BLOCK_TIME * TicksPerSecond
    /\ UNCHANGED <<pc, net>>

NextReward ==
    \/ MineRound
    \/ FetchTemplate
    \/ SubmitMinedTemplate

SpecReward == InitMiner /\ [][NextReward]_vars

---------------------------------------------------------------------------
(* C37 *)

(* C37: at every chain height the reward calculate_block_reward puts into  *)
(* a template is the reward verify_coinbase_transaction requires of a      *)
(* block at that height, in either build.                                  *)
C37_TemplateRewardIsRequiredReward ==
    \A oc \in OverflowChecks :
        calculate_block_reward(blocks, oc) = BlockRewardAt(Len(blocks), oc)

(* A template made on a chain of as many halvings as u64 has bits.         *)
C37_Witness ==
    /\ Len(blocks) \div HALVING_INTERVAL >= U64Bits
    /\ template # <<>>

---------------------------------------------------------------------------
(* A peer that stops reading: the stream of a peer takes StreamCapacity    *)
(* chunks that the peer has not read, and a write_all on a full stream     *)
(* stays in its await.  The cleanup task is one more task on the lock.     *)

StreamCapacity == 2

CleanupTask == MaxTasks + 1

(* The messages of the wallet and of the miner that matter here. *)
StallKinds == {"none", "FetchUTXOs", "SubmitTemplate", "SubmitTransaction"}

(* handle_connection, lines 11-25, for the messages of StallKinds. *)
ReceiveStall(t) ==
    /\ Receive(t)
    /\ tasks'[t].message.kind \in StallKinds

(* The stream of the node a task sends to has room, or is broken. *)
Room(t) ==
    LET node == tasks[t].nodes[1] IN
    ~NODES[node].up \/ Len(NODES[node].bytes) < StreamCapacity

(* send_async, line 77, on a stream with room. *)
SendLenRoom(t) ==
    /\ tasks[t].at = "send_len"
    /\ Room(t)
    /\ SendLen(t)

(* send_async, line 78, on a stream with room. *)
SendPayloadRoom(t) ==
    /\ tasks[t].at = "send_payload"
    /\ Room(t)
    /\ SendPayload(t)

(* A peer that reads takes a chunk from its stream. *)
PeerReads(p) ==
    /\ NODES[p].reads
    /\ NODES[p].bytes # <<>>
    /\ NODES' = [NODES EXCEPT ![p].bytes = Tail(@)]
    /\ UNCHANGED <<blocks, utxos, target, mempool, now, pc, wire, template, tasks>>

(* util::cleanup: the sleep of 30 seconds is over and the task asks for    *)
(* the write guard.                                                        *)
CleanupWake ==
    /\ tasks[CleanupTask].at = "sleep"
    /\ tasks' = [tasks EXCEPT ![CleanupTask].at = "lock"]
    /\ UNCHANGED <<blocks, utxos, target, mempool, now, pc, wire, template, NODES>>

(* util::cleanup: the write guard is given, cleanup_mempool runs and the   *)
(* guard drops.                                                            *)
CleanupRun ==
    /\ tasks[CleanupTask].at = "lock"
    /\ Holders("write") = {} /\ Holders("read") = {}
    /\ LET r == cleanup_mempool(utxos, mempool, now) IN
        /\ utxos' = r.utxos
        /\ mempool' = r.mempool
    /\ tasks' = [tasks EXCEPT ![CleanupTask].at = "sleep"]
    /\ UNCHANGED <<blocks, target, now, pc, wire, template, NODES>>

(* A seed node that serves, one of its peers not reading. *)
InitStall ==
    /\ blocks = <<>>
    /\ utxos = EmptyMap
    /\ target = MIN_TARGET
    /\ mempool = <<>>
    /\ now = 0
    /\ pc = "serve"
    /\ tasks = [t \in Tasks \cup {CleanupTask} |->
                   IF t = CleanupTask THEN [Spawned EXCEPT !.at = "sleep"] ELSE Spawned]
    /\ \E stalled \in Peers :
        NODES = [p \in Peers |->
                    [up |-> TRUE, guard |-> 0, bytes |-> <<>>, reads |-> p # stalled]]
    /\ wire = <<>>
    /\ template = <<>>

NextStall ==
    \/ \E t \in Tasks : ReceiveStall(t)
    \/ \E t \in Tasks : AcquireRead(t)
    \/ \E t \in Tasks : AcquireWrite(t)
    \/ \E t \in Tasks : AddBlock(t)
    \/ \E t \in Tasks : Rebuild(t)
    \/ \E t \in Tasks : AddToMempool(t)
    \/ \E t \in Tasks : SendLenRoom(t)
    \/ \E t \in Tasks : SendPayloadRoom(t)
    \/ \E t \in Tasks : Reply(t)
    \/ \E t \in Tasks : Release(t)
    \/ \E p \in Peers : PeerReads(p)
    \/ CleanupWake
    \/ CleanupRun

(* The executor runs every task that can go on, tokio's RwLock gives its   *)
(* guards in the order they were asked for, and a peer that reads goes on  *)
(* reading; nothing makes a client send.                                   *)
FairStall ==
    /\ \A t \in Tasks :
        /\ SF_vars(AcquireRead(t))
        /\ SF_vars(AcquireWrite(t))
        /\ WF_vars(AddBlock(t))
        /\ WF_vars(Rebuild(t))
        /\ WF_vars(AddToMempool(t))
        /\ WF_vars(SendLenRoom(t))
        /\ WF_vars(SendPayloadRoom(t))
        /\ WF_vars(Reply(t))
        /\ WF_vars(Release(t))
    /\ \A p \in Peers : WF_vars(PeerReads(p))
    /\ WF_vars(CleanupWake)
    /\ SF_vars(CleanupRun)

SpecStall == InitStall /\ [][NextStall]_vars /\ FairStall

---------------------------------------------------------------------------
(* C38 *)

(* C38: with a peer that does not read, every FetchUTXOs request that      *)
(* waits for the read guard is answered in the end, and every cleanup that *)
(* waits for the write guard runs in the end.                              *)
C38_StalledPeerBlocksNoOne ==
    /\ \A t \in Tasks :
        (tasks[t].at = "lock" /\ tasks[t].message.kind = "FetchUTXOs")
            ~> (tasks[t].at \in {"recv", "panicked"})
    /\ (tasks[CleanupTask].at = "lock") ~> (tasks[CleanupTask].at = "sleep")

(* A broadcast waits on the full stream of the peer that does not read,    *)
(* its handler holding the write guard, while a FetchUTXOs request and the *)
(* cleanup wait for the lock.                                              *)
C38_Witness ==
    /\ \E t \in Tasks :
        /\ tasks[t].at \in {"send_len", "send_payload"}
        /\ tasks[t].guard = "write"
        /\ ~NODES[tasks[t].nodes[1]].reads
        /\ ~Room(t)
    /\ \E t \in Tasks : tasks[t].at = "lock" /\ tasks[t].message.kind = "FetchUTXOs"
    /\ tasks[CleanupTask].at = "lock"

====
